---- MODULE Spec2Model ----
(***************************************************************************)
(* Grant matching and ranking engine of grantgpt: the Deadline Validator   *)
(* (api/v1/grants.py is_deadline_valid), the GrantMatcher service          *)
(* (services/grant_matcher.py) and the grant API handlers                  *)
(* (api/v1/grants.py search_grants, list_grants) over the vector store.    *)
(*                                                                         *)
(* Python values are tagged records: None, Num(n), Str(s), Bool(b).  A     *)
(* text is a sequence of one-character strings, so that the regular        *)
(* expressions and the string methods of the source are computed on the    *)
(* characters.  A payload (a Python dict) is a function whose DOMAIN is    *)
(* the set of keys it holds.                                               *)
(***************************************************************************)
EXTENDS Integers, Sequences, FiniteSets, TLC

VARIABLES
    now,        \* the wall clock: [day |-> proleptic ordinal, sec |-> second of the day]
    ticks,      \* how many times the clock has advanced
    store,      \* the vector store: a sequence of points [id, score, payload]
    inflight,   \* the request suspended at its await (embedding call), or NoReq
    resp        \* the response produced by the last step, or NoResp

vars == <<now, ticks, store, inflight, resp>>

(***************************************************************************)
(* Python values                                                           *)
(***************************************************************************)
None == [t |-> "none"]
Num(n) == [t |-> "num", v |-> n]
Str(s) == [t |-> "str", v |-> s]
Bool(b) == [t |-> "bool", v |-> b]
Dict(d) == [t |-> "dict", v |-> d]

\* bool(v): None, 0, "", False and {} are falsy
Truthy(v) ==
    CASE v.t = "none" -> FALSE
      [] v.t = "num" -> v.v # 0
      [] v.t = "str" -> v.v # <<>>
      [] v.t = "bool" -> v.v
      [] v.t = "dict" -> DOMAIN v.v # {}

\* dict.get(key, default)
Get(payload, key, default) ==
    IF key \in DOMAIN payload THEN payload[key] ELSE default

(***************************************************************************)
(* Characters and texts                                                    *)
(***************************************************************************)
DigitChars == <<"0", "1", "2", "3", "4", "5", "6", "7", "8", "9">>

IsDigit(c) == \E i \in 1..10 : DigitChars[i] = c

DigitVal(c) == (CHOOSE i \in 1..10 : DigitChars[i] = c) - 1

UpperChars == <<"A", "B", "C", "D", "E", "F", "G", "H", "I", "J", "K", "L", "M",
                "N", "O", "P", "Q", "R", "S", "T", "U", "V", "W", "X", "Y", "Z">>

LowerChars == <<"a", "b", "c", "d", "e", "f", "g", "h", "i", "j", "k", "l", "m",
                "n", "o", "p", "q", "r", "s", "t", "u", "v", "w", "x", "y", "z">>

\* str.lower() on one character
LowerChar(c) ==
    IF \E i \in 1..26 : UpperChars[i] = c
    THEN LowerChars[CHOOSE i \in 1..26 : UpperChars[i] = c]
    ELSE c

\* str.lower()
Lower(s) == [i \in 1..Len(s) |-> LowerChar(s[i])]

\* str.strip(): leading and trailing blanks removed
Strip(s) ==
    LET keep == {i \in 1..Len(s) : s[i] # " "}
    IN  IF keep = {} THEN <<>>
        ELSE LET lo == CHOOSE i \in keep : \A j \in keep : i <= j
                 hi == CHOOSE i \in keep : \A j \in keep : j <= i
             IN  SubSeq(s, lo, hi)

\* int(text) of a run of digits
RECURSIVE IntOf(_)
IntOf(s) ==
    IF s = <<>> THEN 0
    ELSE 10 * IntOf(SubSeq(s, 1, Len(s) - 1)) + DigitVal(s[Len(s)])

\* every character of s[i..j] is a digit (and the range lies in s)
DigitsAt(s, i, j) ==
    /\ 1 <= i
    /\ j <= Len(s)
    /\ \A k \in i..j : IsDigit(s[k])

CharAt(s, i, c) == 1 <= i /\ i <= Len(s) /\ s[i] = c

\* zero-padded decimal rendering, as in f"{n:02d}" / f"{n:04d}"
Pad2(n) == <<DigitChars[((n \div 10) % 10) + 1], DigitChars[(n % 10) + 1]>>

Pad4(n) == Pad2(n \div 100) \o Pad2(n % 100)

\* str(n) for a natural number
RECURSIVE StrOfInt(_)
StrOfInt(n) ==
    IF n < 10 THEN <<DigitChars[n + 1]>>
    ELSE StrOfInt(n \div 10) \o <<DigitChars[(n % 10) + 1]>>

(***************************************************************************)
(* Calendar: datetime.date                                                 *)
(***************************************************************************)
IsLeap(y) == (y % 4 = 0) /\ ((y % 100 # 0) \/ (y % 400 = 0))

DaysInMonth(y, m) ==
    CASE m \in {1, 3, 5, 7, 8, 10, 12} -> 31
      [] m \in {4, 6, 9, 11} -> 30
      [] OTHER -> IF IsLeap(y) THEN 29 ELSE 28

\* date(y, m, d) raises ValueError unless this holds
ValidDate(y, m, d) ==
    /\ 1 <= y /\ y <= 9999
    /\ 1 <= m /\ m <= 12
    /\ 1 <= d /\ d <= DaysInMonth(y, m)

RECURSIVE DaysBeforeMonth(_, _)
DaysBeforeMonth(y, m) ==
    IF m = 1 THEN 0 ELSE DaysBeforeMonth(y, m - 1) + DaysInMonth(y, m - 1)

\* date.toordinal(): 0001-01-01 is day 1
Ordinal(y, m, d) ==
    LET p == y - 1
    IN  365 * p + (p \div 4) - (p \div 100) + (p \div 400) + DaysBeforeMonth(y, m) + d

\* date.today()
Today == now.day

(***************************************************************************)
(* The five date patterns of is_deadline_valid.  Each operator is          *)
(* re.search(pattern, text): the leftmost match, as the triple <<y, m, d>> *)
(* its converter passes to date(), or <<>> when the pattern matches        *)
(* nowhere.                                                                *)
(***************************************************************************)
NoMatch == <<>>

MinOf(S) == CHOOSE i \in S : \A j \in S : i <= j

\* (\d{4})-(\d{2})-(\d{2})
MatchIso(s) ==
    LET at(i) == /\ DigitsAt(s, i, i + 3)
                 /\ CharAt(s, i + 4, "-")
                 /\ DigitsAt(s, i + 5, i + 6)
                 /\ CharAt(s, i + 7, "-")
                 /\ DigitsAt(s, i + 8, i + 9)
        starts == {i \in 1..Len(s) : at(i)}
    IN  IF starts = {} THEN NoMatch
        ELSE LET i == MinOf(starts)
             IN  << IntOf(SubSeq(s, i, i + 3)),
                    IntOf(SubSeq(s, i + 5, i + 6)),
                    IntOf(SubSeq(s, i + 8, i + 9)) >>

\* (\d{1,2})\.(\d{1,2})\. at position i, then `tail` digits starting at the
\* position after the second dot: the set of <<a, b>> group lengths that match
GermanHead(s, i, tail) ==
    {ab \in {1, 2} \X {1, 2} :
        /\ DigitsAt(s, i, i + ab[1] - 1)
        /\ CharAt(s, i + ab[1], ".")
        /\ DigitsAt(s, i + ab[1] + 1, i + ab[1] + ab[2])
        /\ CharAt(s, i + ab[1] + ab[2] + 1, ".")
        /\ DigitsAt(s, i + ab[1] + ab[2] + 2, i + ab[1] + ab[2] + 1 + tail)}

\* the greedy choice among the group lengths: the longer first group, then the
\* longer second group
Greedy(S) ==
    CHOOSE ab \in S : \A cd \in S :
        \/ ab[1] > cd[1]
        \/ (ab[1] = cd[1] /\ ab[2] >= cd[2])

\* (\d{1,2})\.(\d{1,2})\.(\d{4})
MatchGerman(s) ==
    LET starts == {i \in 1..Len(s) : GermanHead(s, i, 4) # {}}
    IN  IF starts = {} THEN NoMatch
        ELSE LET i == MinOf(starts)
                 ab == Greedy(GermanHead(s, i, 4))
                 p == i + ab[1] + 1
                 q == p + ab[2] + 1
             IN  << IntOf(SubSeq(s, q, q + 3)),
                    IntOf(SubSeq(s, p, p + ab[2] - 1)),
                    IntOf(SubSeq(s, i, i + ab[1] - 1)) >>

\* (\d{1,2})\.(\d{1,2})\.(\d{2})$
MatchShortGerman(s) ==
    LET ends(i) == {ab \in GermanHead(s, i, 2) : i + ab[1] + ab[2] + 3 = Len(s)}
        starts == {i \in 1..Len(s) : ends(i) # {}}
    IN  IF starts = {} THEN NoMatch
        ELSE LET i == MinOf(starts)
                 ab == Greedy(ends(i))
                 p == i + ab[1] + 1
                 q == p + ab[2] + 1
             IN  << 2000 + IntOf(SubSeq(s, q, q + 1)),
                    IntOf(SubSeq(s, p, p + ab[2] - 1)),
                    IntOf(SubSeq(s, i, i + ab[1] - 1)) >>

\* (\d{1,2})/(\d{4})
MatchMonthYear(s) ==
    LET lens(i) == {a \in {1, 2} :
                        /\ DigitsAt(s, i, i + a - 1)
                        /\ CharAt(s, i + a, "/")
                        /\ DigitsAt(s, i + a + 1, i + a + 4)}
        starts == {i \in 1..Len(s) : lens(i) # {}}
    IN  IF starts = {} THEN NoMatch
        ELSE LET i == MinOf(starts)
                 a == CHOOSE x \in lens(i) : \A y \in lens(i) : y <= x
             IN  << IntOf(SubSeq(s, i + a + 1, i + a + 4)),
                    IntOf(SubSeq(s, i, i + a - 1)),
                    28 >>

\* ^(\d{4})$
MatchYear(s) ==
    IF Len(s) = 4 /\ DigitsAt(s, 1, 4) THEN << IntOf(s), 12, 31 >> ELSE NoMatch

\* date_patterns, in the order of the list
DatePatterns(s) ==
    << MatchIso(s), MatchGerman(s), MatchShortGerman(s), MatchMonthYear(s), MatchYear(s) >>

(***************************************************************************)
(* is_deadline_valid                                                       *)
(***************************************************************************)
\* ['laufend', 'fortlaufend', 'keine', 'unbefristet', 'offen', '']
ContinuousWords ==
    { <<"l", "a", "u", "f", "e", "n", "d">>,
      <<"f", "o", "r", "t", "l", "a", "u", "f", "e", "n", "d">>,
      <<"k", "e", "i", "n", "e">>,
      <<"u", "n", "b", "e", "f", "r", "i", "s", "t", "e", "t">>,
      <<"o", "f", "f", "e", "n">>,
      <<>> }

\* PatternLoop with the comparison deadline_date > today
RECURSIVE PatternLoop_strict(_, _, _)
PatternLoop_strict(ms, k, today) ==
    IF k > Len(ms) THEN TRUE
    ELSE IF ms[k] # NoMatch /\ ValidDate(ms[k][1], ms[k][2], ms[k][3])
         THEN Ordinal(ms[k][1], ms[k][2], ms[k][3]) > today
         ELSE PatternLoop_strict(ms, k + 1, today)

\* PatternLoop that answers False when no pattern yields a date
RECURSIVE PatternLoop_failclosed(_, _, _)
PatternLoop_failclosed(ms, k, today) ==
    IF k > Len(ms) THEN FALSE
    ELSE IF ms[k] # NoMatch /\ ValidDate(ms[k][1], ms[k][2], ms[k][3])
         THEN Ordinal(ms[k][1], ms[k][2], ms[k][3]) >= today
         ELSE PatternLoop_failclosed(ms, k + 1, today)

\* the for loop over date_patterns from pattern k on: the first pattern that
\* matches and whose converter does not raise ValueError decides; a match whose
\* converter raises is skipped (continue); no such pattern: True
RECURSIVE PatternLoop(_, _, _)
PatternLoop(ms, k, today) ==
    IF k > Len(ms) THEN TRUE
    ELSE IF ms[k] # NoMatch /\ ValidDate(ms[k][1], ms[k][2], ms[k][3])
         THEN Ordinal(ms[k][1], ms[k][2], ms[k][3]) >= today
         ELSE PatternLoop(ms, k + 1, today)

\* is_deadline_valid(deadline_str) for deadline_str None or a text
is_deadline_valid(d, today) ==
    IF ~Truthy(d) THEN TRUE
    ELSE IF Strip(Lower(d.v)) \in ContinuousWords THEN TRUE
    ELSE PatternLoop(DatePatterns(d.v), 1, today)

(***************************************************************************)
(* Deadline texts as the scrapers and seed scripts write them               *)
(***************************************************************************)
\* "2025-06-30"
IsoText(y, m, d) == Pad4(y) \o <<"-">> \o Pad2(m) \o <<"-">> \o Pad2(d)

\* "2025-06-30T23:59:59Z"
IsoEndOfDayText(y, m, d) ==
    IsoText(y, m, d) \o <<"T", "2", "3", ":", "5", "9", ":", "5", "9", "Z">>

\* "30.06.2025"
GermanText(y, m, d) == Pad2(d) \o <<".">> \o Pad2(m) \o <<".">> \o Pad4(y)

\* "1.7.2025"
GermanPlainText(y, m, d) == StrOfInt(d) \o <<".">> \o StrOfInt(m) \o <<".">> \o Pad4(y)

\* "30.06.25"
ShortGermanText(y, m, d) == Pad2(d) \o <<".">> \o Pad2(m) \o <<".">> \o Pad2(y % 100)

\* "06/2025"
MonthYearText(y, m) == Pad2(m) \o <<"/">> \o Pad4(y)

\* "2025"
YearText(y) == Pad4(y)

\* the dates the probe texts name
ProbeDates ==
    { <<2025, 6, 28>>, <<2025, 6, 30>>, <<2025, 12, 31>>, <<2000, 12, 31>>, <<2099, 12, 31>> }

DatedTexts ==
    UNION { { IsoText(t[1], t[2], t[3]),
              IsoEndOfDayText(t[1], t[2], t[3]),
              GermanText(t[1], t[2], t[3]),
              GermanPlainText(t[1], t[2], t[3]),
              ShortGermanText(t[1], t[2], t[3]),
              MonthYearText(t[1], t[2]),
              YearText(t[1]) } : t \in ProbeDates }

\* sentinels in several spellings, free text, impossible dates, texts that
\* hold two dates
OtherTexts ==
    {
      <<"L", "a", "u", "f", "e", "n", "d">>,   \* 'Laufend'
      <<"L", "A", "U", "F", "E", "N", "D">>,   \* 'LAUFEND'
      <<" ", "l", "a", "u", "f", "e", "n", "d", " ">>,   \* ' laufend '
      <<"F", "o", "r", "t", "l", "a", "u", "f", "e", "n", "d">>,   \* 'Fortlaufend'
      <<"k", "e", "i", "n", "e">>,   \* 'keine'
      <<"U", "n", "b", "e", "f", "r", "i", "s", "t", "e", "t">>,   \* 'Unbefristet'
      <<"O", "F", "F", "E", "N">>,   \* 'OFFEN'
      <<" ", " ", " ">>,   \* '   '
      <<"b", "a", "l", "d">>,   \* 'bald'
      <<"L", "a", "u", "f", "e", "n", "d", " ", "b", "i", "s", " ", "3", "1", ".", "1", "2", ".", "2", "0", "2", "0">>,   \* 'Laufend bis 31.12.2020'
      <<"3", "1", ".", "0", "2", ".", "2", "0", "2", "5">>,   \* '31.02.2025'
      <<"2", "0", "2", "5", "-", "1", "3", "-", "4", "5">>,   \* '2025-13-45'
      <<"2", "0", "2", "0", "-", "0", "2", "-", "3", "0", " ", "2", "8", ".", "0", "2", ".", "2", "0", "2", "0">>,   \* '2020-02-30 28.02.2020'
      <<"2", "0", "2", "5", "-", "0", "2", "-", "3", "0", " ", "3", "0", ".", "0", "6", ".", "2", "0", "2", "5">>,   \* '2025-02-30 30.06.2025'
      <<"2", "0", "9", "9", "-", "0", "1", "-", "0", "1", " ", "0", "1", ".", "0", "1", ".", "2", "0", "2", "0">>,   \* '2099-01-01 01.01.2020'
      <<"0", "1", ".", "0", "1", ".", "2", "0", "2", "0", " ", "2", "0", "9", "9", "-", "0", "1", "-", "0", "1">>,   \* '01.01.2020 2099-01-01'
      <<"2", "0", "2", "5", "-", "0", "6", "-", "3", "0", "T", "2", "3", ":", "5", "9", ":", "5", "9", "Z">>,   \* '2025-06-30T23:59:59Z'
      <<"3", "0", "/", "0", "6", "/", "2", "0", "2", "5">>,   \* '30/06/2025'
      <<"0", "/", "2", "0", "2", "5">>,   \* '0/2025'
      <<"2", "0", "2", "5", " ">>,   \* '2025 '
      <<"0", "0", "0", "0">>,   \* '0000'
      <<"1", ".", "7", ".", "2", "0", "2", "5">>,   \* '1.7.2025'
      <<"3", "1", ".", "1", "1", ".", "2", "0", "2", "0", " ", "1", "2", "/", "2", "0", "9", "9">>,   \* '31.11.2020 12/2099'
      <<"1", ".", "1", ".", "2", "0">>,   \* '1.1.20'
      <<"b", "i", "s", " ", "3", "0", ".", "0", "6", ".", "2", "0", "2", "5", " ", "1", "2", " ", "U", "h", "r">>,   \* 'bis 30.06.2025 12 Uhr'
      <<"3", "2", ".", "1", "2", ".", "2", "0">>    \* '32.12.20'
    }

\* the deadline values the validator is probed with
ProbeDeadlines ==
    {None, Str(<<>>)} \cup {Str(s) : s \in DatedTexts \cup OtherTexts}

\* the days on which the validator is probed: around 2025-06-28 (the anchor of
\* 06/2025), 2025-06-30 and the turn of the year 2025 (the anchor of "2025")
ProbeDays ==
    { Ordinal(2025, 6, 27), Ordinal(2025, 6, 28), Ordinal(2025, 6, 29),
      Ordinal(2025, 6, 30), Ordinal(2025, 7, 1), Ordinal(2025, 12, 31),
      Ordinal(2026, 1, 1) }

(***************************************************************************)
(* Requests and responses                                                  *)
(***************************************************************************)
NoReq == [h |-> "none"]
NoResp == [h |-> "none"]

(***************************************************************************)
(* Specification of the Deadline Validator alone: one call of              *)
(* is_deadline_valid on a probe text, on a probe day.                      *)
(***************************************************************************)
InitValidator ==
    /\ now \in {[day |-> d, sec |-> 0] : d \in ProbeDays}
    /\ ticks = 0
    /\ store = <<>>
    /\ inflight \in {[h |-> "is_deadline_valid", deadline |-> d] : d \in ProbeDeadlines}
    /\ resp = NoResp

CallValidator ==
    /\ inflight.h = "is_deadline_valid"
    /\ resp' = [h |-> "is_deadline_valid",
                deadline |-> inflight.deadline,
                valid |-> is_deadline_valid(inflight.deadline, Today)]
    /\ inflight' = NoReq
    /\ UNCHANGED <<now, ticks, store>>

NextValidator == CallValidator

SpecValidator == InitValidator /\ [][NextValidator]_vars

(***************************************************************************)
(* datetime: fromisoformat, now, comparison, timedelta.days                *)
(***************************************************************************)
\* str.replace("Z", "+00:00")
RECURSIVE ReplaceZ(_)
ReplaceZ(s) ==
    IF s = <<>> THEN <<>>
    ELSE (IF Head(s) = "Z" THEN <<"+", "0", "0", ":", "0", "0">> ELSE <<Head(s)>>)
         \o ReplaceZ(Tail(s))

ParseError == [ok |-> FALSE]

\* the two-digit field of s at i, or -1 when s holds no two digits there
Field2(s, i) == IF DigitsAt(s, i, i + 1) THEN IntOf(SubSeq(s, i, i + 1)) ELSE -1

\* the time of day HH[:MM[:SS]] that fills s[i..j], in seconds, or -1
TimeOfDay(s, i, j) ==
    LET hh == Field2(s, i)
        mm == IF j >= i + 4 THEN Field2(s, i + 3) ELSE 0
        ss == IF j >= i + 7 THEN Field2(s, i + 6) ELSE 0
        shaped == /\ (j - i) \in {1, 4, 7}
                  /\ (j >= i + 4 => CharAt(s, i + 2, ":"))
                  /\ (j >= i + 7 => CharAt(s, i + 5, ":"))
    IN  IF shaped /\ hh \in 0..23 /\ mm \in 0..59 /\ ss \in 0..59
        THEN hh * 3600 + mm * 60 + ss
        ELSE -1

\* datetime.fromisoformat(text) on the forms every supported Python accepts:
\* YYYY-MM-DD, optionally one separator character and HH[:MM[:SS]], optionally
\* a UTC offset +HH:MM or -HH:MM.  Anything else raises ValueError.
\* aware: the value carries a tzinfo; off: its offset east of UTC in seconds.
fromisoformat(s) ==
    LET dateOk == /\ Len(s) >= 10
                  /\ DigitsAt(s, 1, 4) /\ s[5] = "-"
                  /\ DigitsAt(s, 6, 7) /\ s[8] = "-"
                  /\ DigitsAt(s, 9, 10)
        y == IntOf(SubSeq(s, 1, 4))
        m == IntOf(SubSeq(s, 6, 7))
        d == IntOf(SubSeq(s, 9, 10))
        signs == {i \in 12..Len(s) : s[i] \in {"+", "-"}}
        tend == IF signs = {} THEN Len(s) ELSE MinOf(signs) - 1
        tod == TimeOfDay(s, 12, tend)
        ooff == IF signs = {} THEN 0 ELSE TimeOfDay(s, tend + 2, Len(s))
        offOk == signs = {} \/ (Len(s) = tend + 6 /\ ooff >= 0)
    IN  IF ~dateOk THEN ParseError
        ELSE IF ~ValidDate(y, m, d) THEN ParseError
        ELSE IF Len(s) = 10
             THEN [ok |-> TRUE, day |-> Ordinal(y, m, d), sec |-> 0, aware |-> FALSE, off |-> 0]
        ELSE IF Len(s) < 13 \/ tod < 0 \/ ~offOk THEN ParseError
        ELSE [ok |-> TRUE, day |-> Ordinal(y, m, d), sec |-> tod,
              aware |-> signs # {},
              off |-> IF signs = {} THEN 0
                      ELSE IF s[tend + 1] = "-" THEN 0 - ooff ELSE ooff]

\* the instant of a parsed datetime on the clock `now` is read from: a naive
\* value is compared with datetime.now(None), an aware one with datetime.now(tz);
\* the server's local time is UTC
OnClock(dt) ==
    LET total == dt.sec - dt.off
    IN  [day |-> dt.day + (total \div 86400), sec |-> total % 86400]

\* a < b on datetimes
Before(a, b) == a.day < b.day \/ (a.day = b.day /\ a.sec < b.sec)

\* (a - b).days: timedelta normalises to 0 <= seconds < 86400, so days is the floor
DeltaDays(a, b) == (a.day - b.day) - (IF a.sec < b.sec THEN 1 ELSE 0)

(***************************************************************************)
(* QdrantService                                                           *)
(***************************************************************************)
\* list.sort(key=lambda x: x[key], reverse=True) / the store's ranking by
\* similarity: a stable sort, highest key first (equal keys keep their order)
RECURSIVE SortDesc(_, _)
SortDesc(s, key) ==
    IF s = <<>> THEN <<>>
    ELSE LET rest == SortDesc(SubSeq(s, 1, Len(s) - 1), key)
             x == s[Len(s)]
             ahead == {i \in 1..Len(rest) : rest[i][key] >= x[key]}
             n == IF ahead = {} THEN 0 ELSE CHOOSE i \in ahead : \A j \in ahead : j <= i
         IN  SubSeq(rest, 1, n) \o <<x>> \o SubSeq(rest, n + 1, Len(rest))

\* x in s
InSeq(x, s) == \E i \in 1..Len(s) : s[i] = x

\* a result without the match_score the Ranker writes into it
Unscored(r) == [id |-> r.id, score |-> r.score, payload |-> r.payload]

\* list[:n]
Take(s, n) == SubSeq(s, 1, IF n < Len(s) THEN n ELSE Len(s))

\* search_similar_grants(query_vector, limit, score_threshold): the points whose
\* similarity reaches the threshold, most similar first, at most `limit`
search_similar_grants(limit, score_threshold) ==
    Take(SortDesc(SelectSeq(store, LAMBDA p : p.score >= score_threshold), "score"),
         limit)

\* scroll_grants(None, limit, offset): the points in the store's order
scroll_grants(limit, offset) ==
    Take(SubSeq(store, offset + 1, Len(store)), limit)

(***************************************************************************)
(* GrantMatcher (services/grant_matcher.py)                                *)
(*                                                                         *)
(* A similarity is held in hundredths (0.75 is 75), a success rate in      *)
(* hundredths, and a match_score in units of 1/200000, so that             *)
(*   score * (1 + rate * 0.5) * urgency  is  score * (200 + rate) * u      *)
(* with u the urgency in tenths; the arithmetic is exact.                  *)
(***************************************************************************)
\* score_threshold=0.5 of GrantMatcher.search_grants
GmScoreThreshold == 50

\* limit * 5 of GrantMatcher.search_grants
GmOverfetch == 5

\* BudgetCheck with the comparison budget >= max_funding
BudgetCheck_inclusive(payload, budget) ==
    IF Truthy(budget) /\ "max_funding" \in DOMAIN payload
    THEN IF payload["max_funding"].t # "num" THEN "raise"
         ELSE IF budget.v >= payload["max_funding"].v THEN "drop"
         ELSE "keep"
    ELSE "keep"

\* "Budget check" of _filter_by_criteria on one payload: "drop" (continue),
\* "keep", or "raise" (budget > a value that is no number is a TypeError)
BudgetCheck(payload, budget) ==
    IF Truthy(budget) /\ "max_funding" \in DOMAIN payload
    THEN IF payload["max_funding"].t # "num" THEN "raise"
         ELSE IF budget.v > payload["max_funding"].v THEN "drop"
         ELSE "keep"
    ELSE "keep"

\* "Deadline check" of _filter_by_criteria on one payload: "drop" when the text
\* is an ISO datetime before now; every exception of the parse keeps the grant
DeadlineCheck(payload) ==
    IF "deadline" \in DOMAIN payload /\ Truthy(payload["deadline"])
    THEN IF payload["deadline"].t # "str" THEN "keep"
         ELSE LET dt == fromisoformat(ReplaceZ(payload["deadline"].v))
              IN  IF dt.ok /\ Before(OnClock(dt), now) THEN "drop" ELSE "keep"
    ELSE "keep"

\* _filter_by_criteria(results, budget, location, company_info)
_filter_by_criteria(results, budget) ==
    [raised |-> \E i \in 1..Len(results) : BudgetCheck(results[i].payload, budget) = "raise",
     out |-> SelectSeq(results,
                 LAMBDA r : /\ BudgetCheck(r.payload, budget) = "keep"
                            /\ DeadlineCheck(r.payload) = "keep")]

\* RateFactor with the boost turned into a penalty: 1 - success_rate * 0.5
RateFactor_inverted(payload) ==
    IF "historical_success_rate" \in DOMAIN payload
    THEN IF payload["historical_success_rate"].t # "num" THEN -1
         ELSE 200 - payload["historical_success_rate"].v
    ELSE 200

\* "Boost by success rate": the factor 1 + success_rate * 0.5 in two-hundredths,
\* or -1 when the multiplication raises TypeError (the rate is no number)
RateFactor(payload) ==
    IF "historical_success_rate" \in DOMAIN payload
    THEN IF payload["historical_success_rate"].t # "num" THEN -1
         ELSE 200 + payload["historical_success_rate"].v
    ELSE 200

\* Urgency with the comparisons days_until <= 30 and days_until <= 60
Urgency_inclusive(payload) ==
    IF /\ "deadline" \in DOMAIN payload
       /\ Truthy(payload["deadline"])
       /\ ~Truthy(Get(payload, "is_continuous", Bool(FALSE)))
    THEN IF payload["deadline"].t # "str" THEN 10
         ELSE LET dt == fromisoformat(ReplaceZ(payload["deadline"].v))
              IN  IF ~dt.ok THEN 10
                  ELSE LET days_until == DeltaDays(OnClock(dt), now)
                       IN  IF days_until <= 30 THEN 12
                           ELSE IF days_until <= 60 THEN 11
                           ELSE 10
    ELSE 10

\* "Boost by deadline urgency": the factor in tenths
Urgency(payload) ==
    IF /\ "deadline" \in DOMAIN payload
       /\ Truthy(payload["deadline"])
       /\ ~Truthy(Get(payload, "is_continuous", Bool(FALSE)))
    THEN IF payload["deadline"].t # "str" THEN 10
         ELSE LET dt == fromisoformat(ReplaceZ(payload["deadline"].v))
              IN  IF ~dt.ok THEN 10
                  ELSE LET days_until == DeltaDays(OnClock(dt), now)
                       IN  IF days_until < 30 THEN 12
                           ELSE IF days_until < 60 THEN 11
                           ELSE 10
    ELSE 10

\* result["match_score"] = final_score
Scored(r) ==
    [id |-> r.id, score |-> r.score, payload |-> r.payload,
     match_score |-> r.score * RateFactor(r.payload) * Urgency(r.payload)]

\* _rank_grants without its sort
_rank_grants_unsorted(results) ==
    [raised |-> \E i \in 1..Len(results) : RateFactor(results[i].payload) < 0,
     out |-> [i \in 1..Len(results) |-> Scored(results[i])]]

\* _rank_grants(results)
_rank_grants(results) ==
    [raised |-> \E i \in 1..Len(results) : RateFactor(results[i].payload) < 0,
     out |-> SortDesc([i \in 1..Len(results) |-> Scored(results[i])], "match_score")]

\* GmResponse with the ranking run on the raw results, before the filter
GmResponse_rankfirst(budget, limit) ==
    LET raw_results == search_similar_grants(limit * GmOverfetch, GmScoreThreshold)
        ranked == _rank_grants(raw_results)
        filtered == _filter_by_criteria(raw_results, budget)
        kept == SelectSeq(ranked.out, LAMBDA r : InSeq(Unscored(r), filtered.out))
    IN  IF ranked.raised
        THEN [h |-> "gm", status |-> "error", stage |-> "rank",
              budget |-> budget, limit |-> limit,
              raw |-> raw_results,
              filtered |-> raw_results,
              log |-> <<"search", "rank">>]
        ELSE IF filtered.raised
        THEN [h |-> "gm", status |-> "error", stage |-> "filter",
              budget |-> budget, limit |-> limit,
              raw |-> raw_results,
              log |-> <<"search", "rank", "filter">>]
        ELSE [h |-> "gm", status |-> "ok", stage |-> "return",
              budget |-> budget, limit |-> limit,
              raw |-> raw_results,
              filtered |-> filtered.out,
              ranked |-> ranked.out,
              result |-> Take(kept, limit),
              log |-> <<"search", "rank", "filter">>]

\* GrantMatcher.search_grants after the embedding has arrived: search, filter,
\* rank, top N.  The intermediate lists are kept in the response record; log
\* lists the steps the request took after its embedding call, and stage names
\* the step whose exception left the handler.
GmResponse(budget, limit) ==
    LET raw_results == search_similar_grants(limit * GmOverfetch, GmScoreThreshold)
        filtered == _filter_by_criteria(raw_results, budget)
        ranked == _rank_grants(filtered.out)
    IN  IF filtered.raised
        THEN [h |-> "gm", status |-> "error", stage |-> "filter",
              budget |-> budget, limit |-> limit,
              raw |-> raw_results,
              log |-> <<"search", "filter">>]
        ELSE IF ranked.raised
        THEN [h |-> "gm", status |-> "error", stage |-> "rank",
              budget |-> budget, limit |-> limit,
              raw |-> raw_results,
              filtered |-> filtered.out,
              log |-> <<"search", "filter", "rank">>]
        ELSE [h |-> "gm", status |-> "ok", stage |-> "return",
              budget |-> budget, limit |-> limit,
              raw |-> raw_results,
              filtered |-> filtered.out,
              ranked |-> ranked.out,
              result |-> Take(ranked.out, limit),
              log |-> <<"search", "filter", "rank">>]

(***************************************************************************)
(* The grant API (api/v1/grants.py)                                        *)
(***************************************************************************)
\* limit=30 of the POST /search store query
ApiFetchLimit == 30

\* score_threshold=0.3 of the POST /search store query
ApiScoreThreshold == 30

\* "Skip if we already have 10 valid grants"
ApiMaxGrants == 10

\* limit: int = Query(20, le=100) of GET /
ListDefaultLimit == 20

\* the default success rate 0.60
DefaultSuccessRate == 60

Laufend == Str(<<"L", "a", "u", "f", "e", "n", "d">>)

\* a or b or c or d
FirstTruthy(vs) ==
    LET n == Len(vs)
        hits == {i \in 1..n : Truthy(vs[i])}
    IN  IF hits = {} THEN vs[n] ELSE vs[MinOf(hits)]

\* a similarity in the unit of match_score
AsMatchScore(score) == score * 200 * 10

\* needle in hay, for texts
Contains(needle, hay) ==
    \E i \in 1..(Len(hay) - Len(needle) + 1) : SubSeq(hay, i, i + Len(needle) - 1) = needle

\* class GrantType
GrantType ==
    { Str(<<"f", "e", "d", "e", "r", "a", "l">>), Str(<<"s", "t", "a", "t", "e">>),
      Str(<<"e", "u">>), Str(<<"m", "u", "n", "i", "c", "i", "p", "a", "l">>) }

\* class GrantCategory
GrantCategory ==
    { Str(<<"i", "n", "n", "o", "v", "a", "t", "i", "o", "n">>),
      Str(<<"d", "i", "g", "i", "t", "a", "l", "i", "z", "a", "t", "i", "o", "n">>),
      Str(<<"g", "r", "e", "e", "n", "_", "t", "e", "c", "h">>),
      Str(<<"e", "x", "p", "o", "r", "t">>),
      Str(<<"t", "r", "a", "i", "n", "i", "n", "g">>),
      Str(<<"r", "e", "g", "i", "o", "n", "a", "l">>) }

\* "Determine type" of POST /search: the stored type when it is one of the four,
\* else a type found in the funder's name; raised when the funder is no text
\* (None.lower() is an AttributeError)
SearchType(payload) ==
    LET grant_type == Get(payload, "type", Str(<<"f", "e", "d", "e", "r", "a", "l">>))
        funder == Get(payload, "funder", Str(<<>>))
    IN  IF grant_type \in GrantType THEN [raised |-> FALSE, v |-> grant_type]
        ELSE IF funder.t # "str" THEN [raised |-> TRUE]
        ELSE IF \E w \in { <<"b", "u", "n", "d">>, <<"b", "m", "w">>,
                           <<"b", "a", "f", "a">>, <<"k", "f", "w">> } :
                    Contains(w, Lower(funder.v))
        THEN [raised |-> FALSE, v |-> Str(<<"f", "e", "d", "e", "r", "a", "l">>)]
        ELSE [raised |-> FALSE, v |-> Str(<<"s", "t", "a", "t", "e">>)]

\* "Determine category" of POST /search: the stored category when it is one of
\* the six, else a category found in what_is_funded; raised when that is no text
SearchCategory(payload) ==
    LET grant_category == Get(payload, "category", Str(<<"d", "i", "g", "i", "t", "a", "l", "i", "z", "a", "t", "i", "o", "n">>))
        what_funded == Get(payload, "what_is_funded", Str(<<>>))
        has(w) == Contains(w, Lower(what_funded.v))
    IN  IF grant_category \in GrantCategory THEN [raised |-> FALSE, v |-> grant_category]
        ELSE IF what_funded.t # "str" THEN [raised |-> TRUE]
        ELSE IF has(<<"i", "n", "n", "o", "v", "a", "t", "i", "o", "n">>) \/ has(<<"f", "o", "r", "s", "c", "h", "u", "n", "g">>)
        THEN [raised |-> FALSE, v |-> Str(<<"i", "n", "n", "o", "v", "a", "t", "i", "o", "n">>)]
        ELSE IF has(<<"d", "i", "g", "i", "t", "a", "l">>) \/ has(<<"i", "t">>)
        THEN [raised |-> FALSE, v |-> Str(<<"d", "i", "g", "i", "t", "a", "l", "i", "z", "a", "t", "i", "o", "n">>)]
        ELSE IF has(<<"k", "l", "i", "m", "a">>) \/ has(<<"u", "m", "w", "e", "l", "t">>) \/ has(<<"e", "n", "e", "r", "g", "i", "e">>)
        THEN [raised |-> FALSE, v |-> Str(<<"g", "r", "e", "e", "n", "_", "t", "e", "c", "h">>)]
        ELSE [raised |-> FALSE, v |-> Str(<<"d", "i", "g", "i", "t", "a", "l", "i", "z", "a", "t", "i", "o", "n">>)]

\* response_model=List[Grant]: the validation of the returned list, as far as
\* type: GrantType and category: GrantCategory go
ResponseModelOk(grants) ==
    \A i \in 1..Len(grants) :
        grants[i].type \in GrantType /\ grants[i].category \in GrantCategory

\* str(funding_str).replace('.', '').replace(',', '.')
CleanAmount(s) ==
    LET undotted == SelectSeq(s, LAMBDA c : c # ".")
    IN  [i \in 1..Len(undotted) |-> IF undotted[i] = "," THEN "." ELSE undotted[i]]

\* the end of the longest run of digits that starts at s[i] (i - 1 when s[i]
\* is no digit)
RECURSIVE DigitRunEnd(_, _)
DigitRunEnd(s, i) ==
    IF i <= Len(s) /\ IsDigit(s[i]) THEN DigitRunEnd(s, i + 1) ELSE i - 1

\* re.findall(r'\d+(?:\.\d+)?', s) from position i on: the matches, left to
\* right, each as the digits before and after its point
RECURSIVE FindNumbers(_, _)
FindNumbers(s, i) ==
    IF i > Len(s) THEN <<>>
    ELSE IF ~IsDigit(s[i]) THEN FindNumbers(s, i + 1)
    ELSE LET e == DigitRunEnd(s, i)
             f == IF CharAt(s, e + 1, ".") THEN DigitRunEnd(s, e + 2) ELSE e
             last == IF f > e + 1 THEN f ELSE e
         IN  << [whole |-> SubSeq(s, i, e),
                 frac |-> IF f > e + 1 THEN SubSeq(s, e + 2, f) ELSE <<>>] >>
             \o FindNumbers(s, last + 1)

\* float(text) of a match of FindNumbers, in cents (to the second decimal)
FloatCents(m) ==
    100 * IntOf(m.whole)
    + (IF Len(m.frac) = 0 THEN 0
       ELSE IF Len(m.frac) = 1 THEN 10 * DigitVal(m.frac[1])
       ELSE 10 * DigitVal(m.frac[1]) + DigitVal(m.frac[2]))

\* the amount both handlers read from a funding text that holds 'bis': the
\* last number in it, in cents; 0 when the text holds no 'bis' or no number
AmountFromText(funding_str) ==
    IF Contains(<<"b", "i", "s">>, Lower(funding_str))
    THEN LET numbers == FindNumbers(CleanAmount(funding_str), 1)
         IN  IF numbers # <<>> THEN FloatCents(numbers[Len(numbers)]) ELSE 0
    ELSE 0

\* str(x) of a payload value that is a text or None
StrOf(v) == IF v.t = "str" THEN v.v ELSE <<"N", "o", "n", "e">>

\* "Extract funding amount" of POST /search, in cents
SearchFunding(payload) ==
    IF "max_funding" \in DOMAIN payload /\ Truthy(payload["max_funding"])
    THEN 100 * payload["max_funding"].v
    ELSE LET funding_str == Get(payload, "funding_amount", Str(<<"N", "i", "c", "h", "t", " ", "a", "n", "g", "e", "g", "e", "b", "e", "n">>))
         IN  IF Truthy(funding_str) THEN AmountFromText(StrOf(funding_str)) ELSE 0

\* max_funding of GET /, in cents: the stored number, the funding text when
\* that number is 0
ListFunding(payload) ==
    LET max_funding == Get(payload, "max_funding", Num(0))
    IN  IF max_funding.v # 0 THEN 100 * max_funding.v
        ELSE AmountFromText(StrOf(Get(payload, "funding_amount", Str(<<>>))))

\* f"{value}" of a text, an int or None
Format(v) ==
    CASE v.t = "str" -> v.v
      [] v.t = "num" -> StrOfInt(v.v)
      [] v.t = "none" -> <<"N", "o", "n", "e">>

\* [:500] of the description
DescriptionLimit == 500

\* payload.get('name') or payload.get('title') or 'Unbekannt'
GrantName(payload) ==
    FirstTruthy(<< Get(payload, "name", None), Get(payload, "title", None),
                   Str(<<"U", "n", "b", "e", "k", "a", "n", "n", "t">>) >>)

\* (payload.get('description') or '')[:500]
GrantDescription(payload) ==
    Str(Take(FirstTruthy(<< Get(payload, "description", None), Str(<<>>) >>).v,
             DescriptionLimit))

\* payload.get('who_is_funded') or 'Nicht angegeben'
WhoIsFunded(payload) ==
    FirstTruthy(<< Get(payload, "who_is_funded", None), Str(<<"N", "i", "c", "h", "t", " ", "a", "n", "g", "e", "g", "e", "b", "e", "n">>) >>)

\* f"Fördergeber: {payload.get('funder') or 'Nicht angegeben'}"
FunderLine(payload) ==
    Str(<<"F", "ö", "r", "d", "e", "r", "g", "e", "b", "e", "r", ":", " ">>
        \o Format(FirstTruthy(<< Get(payload, "funder", None), Str(<<"N", "i", "c", "h", "t", " ", "a", "n", "g", "e", "g", "e", "b", "e", "n">>) >>)))

\* f"Region: {payload.get('region') or 'Deutschland'}"
RegionLine(payload) ==
    Str(<<"R", "e", "g", "i", "o", "n", ":", " ">>
        \o Format(FirstTruthy(<< Get(payload, "region", None), Str(<<"D", "e", "u", "t", "s", "c", "h", "l", "a", "n", "d">>) >>)))

\* the body of the POST /search loop for one store result: the grant it
\* appends, skip (continue) for an expired program, or raised
SearchGrant(result) ==
    LET payload == result.payload
        hasFunding == "max_funding" \in DOMAIN payload /\ Truthy(payload["max_funding"])
        deadline0 == Get(payload, "deadline", None)
        deadline == IF deadline0 = Laufend \/ Truthy(Get(payload, "is_continuous", None))
                    THEN Laufend ELSE deadline0
        grant_type == SearchType(payload)
        grant_category == SearchCategory(payload)
    IN  IF hasFunding /\ payload["max_funding"].t # "num"
        THEN [raised |-> TRUE, skip |-> FALSE]
        ELSE IF grant_type.raised \/ grant_category.raised
        THEN [raised |-> TRUE, skip |-> FALSE]
        ELSE IF ~is_deadline_valid(deadline, Today)
        THEN [raised |-> FALSE, skip |-> TRUE]
        ELSE [raised |-> FALSE, skip |-> FALSE,
              src |-> result,
              grant |->
                [id |-> FirstTruthy(<< Get(payload, "url", None),
                                       Get(payload, "website_url", None),
                                       Get(payload, "external_id", None),
                                       Str(StrOfInt(result.id)) >>),
                 type |-> grant_type.v,
                 category |-> grant_category.v,
                 max_funding |-> SearchFunding(payload) \div 100,
                 max_funding_cents |-> SearchFunding(payload) % 100,
                 deadline |-> deadline,
                 name |-> GrantName(payload),
                 description |-> GrantDescription(payload),
                 eligibility |-> << WhoIsFunded(payload), FunderLine(payload),
                                    RegionLine(payload) >>,
                 success_rate |-> FirstTruthy(<< Get(payload, "historical_success_rate", None),
                                                 Num(DefaultSuccessRate) >>),
                 match_score |-> AsMatchScore(result.score)]]

\* the POST /search loop from result i on: at most ApiMaxGrants grants
RECURSIVE SearchLoop(_, _, _, _)
SearchLoop(results, i, grants, srcs) ==
    IF i > Len(results) \/ Len(grants) >= ApiMaxGrants
    THEN [raised |-> FALSE, grants |-> grants, srcs |-> srcs]
    ELSE LET g == SearchGrant(results[i])
         IN  IF g.raised THEN [raised |-> TRUE]
             ELSE IF g.skip THEN SearchLoop(results, i + 1, grants, srcs)
             ELSE SearchLoop(results, i + 1, Append(grants, g.grant), Append(srcs, g.src))

\* POST /search after the embedding has arrived.  srcs[i] is the store result
\* grants[i] was built from.
ApiResponse(budget) ==
    LET results == search_similar_grants(ApiFetchLimit, ApiScoreThreshold)
        out == SearchLoop(results, 1, <<>>, <<>>)
    IN  IF out.raised
        THEN [h |-> "api", status |-> "error", stage |-> "convert", budget |-> budget,
              raw |-> results, log |-> <<"search">>]
        ELSE IF ~ResponseModelOk(out.grants)
        THEN [h |-> "api", status |-> "error", stage |-> "response_model", budget |-> budget,
              raw |-> results, returned |-> out.grants, log |-> <<"search">>]
        ELSE [h |-> "api", status |-> "ok", stage |-> "return", budget |-> budget,
              raw |-> results, grants |-> out.grants, srcs |-> out.srcs,
              returned |-> out.grants, log |-> <<"search">>]

\* the body of the GET / loop for one store result
ListGrant(result) ==
    LET payload == result.payload
        deadline == Get(payload, "deadline", Laufend)
        funding == Get(payload, "max_funding", Num(0))
    IN  IF ~is_deadline_valid(deadline, Today)
        THEN [raised |-> FALSE, skip |-> TRUE]
        ELSE IF funding.t # "num"
        THEN [raised |-> TRUE, skip |-> FALSE]
        ELSE [raised |-> FALSE, skip |-> FALSE,
              src |-> result,
              grant |->
                [id |-> FirstTruthy(<< Get(payload, "url", None),
                                       Get(payload, "external_id", None),
                                       Str(StrOfInt(result.id)) >>),
                 type |-> Get(payload, "type", Str(<<"f", "e", "d", "e", "r", "a", "l">>)),
                 category |-> Get(payload, "category", Str(<<"d", "i", "g", "i", "t", "a", "l", "i", "z", "a", "t", "i", "o", "n">>)),
                 max_funding |-> ListFunding(payload) \div 100,
                 max_funding_cents |-> ListFunding(payload) % 100,
                 deadline |-> deadline,
                 name |-> GrantName(payload),
                 description |-> GrantDescription(payload),
                 eligibility |-> << WhoIsFunded(payload), FunderLine(payload) >>,
                 success_rate |-> Get(payload, "historical_success_rate",
                                      Num(DefaultSuccessRate)),
                 match_score |-> None]]

\* GET / with no type or category filter, skip = 0 and the default limit; any
\* exception of the loop is answered 500, and so is a returned list that the
\* response model rejects (returned is the list the handler returned)
ListResponse ==
    LET results == scroll_grants(ListDefaultLimit, 0)
        gs == [i \in 1..Len(results) |-> ListGrant(results[i])]
        kept == SelectSeq(gs, LAMBDA g : ~g.skip)
    IN  IF \E i \in 1..Len(gs) : gs[i].raised
        THEN [h |-> "list", status |-> "error", stage |-> "convert", raw |-> results]
        ELSE LET grants == [i \in 1..Len(kept) |-> kept[i].grant]
             IN  IF ~ResponseModelOk(grants)
                 THEN [h |-> "list", status |-> "error", stage |-> "response_model",
                       raw |-> results, returned |-> grants]
                 ELSE [h |-> "list", status |-> "ok", stage |-> "return",
                       raw |-> results,
                       grants |-> grants,
                       srcs |-> [i \in 1..Len(kept) |-> kept[i].src],
                       returned |-> grants]

(***************************************************************************)
(* The query text: POST /search builds it inline, GrantMatcher in          *)
(* _build_query_text.                                                      *)
(***************************************************************************)
\* str(x) of a whole-number float below 1e16, as in f"{budget}"
StrOfFloat(n) == StrOfInt(n) \o <<".", "0">>

\* sep.join(parts)
RECURSIVE Join(_, _)
Join(parts, sep) ==
    IF parts = <<>> THEN <<>>
    ELSE IF Len(parts) = 1 THEN parts[1]
    ELSE parts[1] \o sep \o Join(Tail(parts), sep)

\* the request body of POST /search (GrantSearch): every field optional
GrantSearch(project_description, industry, company_size, budget, location) ==
    [project_description |-> project_description, industry |-> industry,
     company_size |-> company_size, budget |-> budget, location |-> location]

\* query_parts of POST /search; budget is a float
ApiQueryParts(search_params) ==
    (IF Truthy(search_params.project_description)
     THEN << search_params.project_description.v >> ELSE <<>>)
    \o (IF Truthy(search_params.industry)
        THEN << <<"B", "r", "a", "n", "c", "h", "e", ":", " ">> \o search_params.industry.v >> ELSE <<>>)
    \o (IF Truthy(search_params.company_size)
        THEN << <<"U", "n", "t", "e", "r", "n", "e", "h", "m", "e", "n", "s", "g", "r", "ö", "ß", "e", ":", " ">> \o StrOfInt(search_params.company_size.v)
                \o <<" ", "M", "i", "t", "a", "r", "b", "e", "i", "t", "e", "r">> >> ELSE <<>>)
    \o (IF Truthy(search_params.budget)
        THEN << <<"B", "u", "d", "g", "e", "t", ":", " ">> \o StrOfFloat(search_params.budget.v)
                \o <<" ", "E", "U", "R">> >> ELSE <<>>)
    \o (IF Truthy(search_params.location)
        THEN << <<"S", "t", "a", "n", "d", "o", "r", "t", ":", " ">> \o search_params.location.v >> ELSE <<>>)

\* the arguments of GrantMatcher.search_grants
GmArgs(project_description, company_info, budget, location, limit) ==
    [project_description |-> project_description, company_info |-> company_info,
     budget |-> budget, location |-> location, limit |-> limit]

\* parts of _build_query_text: Python values, the description first
GmQueryParts(description, company_info, budget, location) ==
    << description >>
    \o (IF Truthy(company_info) /\ "industry" \in DOMAIN company_info.v
        THEN << Str(<<"I", "n", "d", "u", "s", "t", "r", "y", ":", " ">> \o Format(company_info.v["industry"])) >> ELSE <<>>)
    \o (IF Truthy(company_info) /\ "company_size" \in DOMAIN company_info.v
        THEN << Str(<<"C", "o", "m", "p", "a", "n", "y", " ", "s", "i", "z", "e", ":", " ">> \o Format(company_info.v["company_size"])
                    \o <<" ", "e", "m", "p", "l", "o", "y", "e", "e", "s">>) >> ELSE <<>>)
    \o (IF Truthy(budget)
        THEN << Str(<<"B", "u", "d", "g", "e", "t", ":", " ">> \o Format(budget) \o <<" ", "E", "U", "R">>) >> ELSE <<>>)
    \o (IF Truthy(location)
        THEN << Str(<<"L", "o", "c", "a", "t", "i", "o", "n", ":", " ">> \o Format(location)) >> ELSE <<>>)

\* _build_query_text(description, company_info, budget, location): " ".join
\* raises TypeError on a part that is no text (a description of None)
_build_query_text(description, company_info, budget, location) ==
    LET parts == GmQueryParts(description, company_info, budget, location)
    IN  IF \E i \in 1..Len(parts) : parts[i].t # "str"
        THEN [raised |-> TRUE]
        ELSE [raised |-> FALSE,
              text |-> Join([i \in 1..Len(parts) |-> parts[i].v], <<" ">>)]

(***************************************************************************)
(* The programs the ingestion paths put in the store.  Payloads of the     *)
(* embedding task (tasks/grant_tasks.py) carry max_funding, deadline,      *)
(* is_continuous and historical_success_rate, each possibly null; payloads *)
(* of the importer (scripts/import_foerderdatenbank.py) carry a free-text  *)
(* deadline and none of the other three.                                   *)
(***************************************************************************)
TaskPayload(funding, deadline, continuous, rate) ==
    [type |-> Str(<<"f", "e", "d", "e", "r", "a", "l">>),
     category |-> Str(<<"i", "n", "n", "o", "v", "a", "t", "i", "o", "n">>),
     max_funding |-> funding, deadline |-> deadline,
     is_continuous |-> Bool(continuous), historical_success_rate |-> rate]

\* the importer stores its own category label with every program
ImportPayload(deadline, what_is_funded) ==
    [what_is_funded |-> what_is_funded,
     funder |-> Str(<<"B", "u", "n", "d">>),
     deadline |-> deadline,
     category |-> Str(<<"b", "u", "n", "d", "e", "s", "f", "ö", "r", "d", "e", "r", "u", "n", "g">>)]

\* the fixture of tests/test_grant_matcher.py: no success rate, no is_continuous
TestPayload(funding, deadline) == [max_funding |-> funding, deadline |-> deadline]

\* scripts/seed_simple.py: max_funding defaults to 0, deadline to 'Laufend'
SeedPayload(funding, deadline) ==
    [funder |-> Str(<<"L", "a", "n", "d", " ", "B", "a", "y", "e", "r", "n">>),
     type |-> Str(<<"l", "a", "n", "d">>),
     category |-> Str(<<"i", "n", "n", "o", "v", "a", "t", "i", "o", "n">>),
     max_funding |-> funding, deadline |-> deadline,
     what_is_funded |-> Str(<<>>)]

Catalogue ==
    << \* 1: closes on 2025-06-30
       [score |-> 75,
        payload |-> TaskPayload(Num(500000), Str(IsoText(2025, 6, 30)), FALSE, Num(80))],
       \* 2: continuous
       [score |-> 70,
        payload |-> TaskPayload(Num(100000), Laufend, TRUE, Num(50))],
       \* 3: closed on 01.01.2020, written the German way
       [score |-> 90,
        payload |-> ImportPayload(Str(GermanText(2020, 1, 1)), Str(<<>>))],
       \* 4: continuous, with the date of its first round still in the deadline
       [score |-> 80,
        payload |-> TaskPayload(Num(500000), Str(IsoText(2020, 1, 1)), TRUE, Num(80))],
       \* 5: no deadline
       [score |-> 90,
        payload |-> TestPayload(Num(500000), None)],
       \* 6: closes at the end of 2025-06-30, UTC
       [score |-> 80,
        payload |-> TaskPayload(Num(100000), Str(IsoEndOfDayText(2025, 6, 30)), FALSE, Num(50))],
       \* 7: no deadline, success rate unknown (null)
       [score |-> 60,
        payload |-> TaskPayload(Num(100000), None, FALSE, None)],
       \* 8: continuous, a weak match
       [score |-> 40,
        payload |-> ImportPayload(Laufend, Str(<<"E", "n", "e", "r", "g", "i", "e">>))],
       \* 9: funding ceiling unknown (null), no deadline
       [score |-> 85,
        payload |-> TaskPayload(None, None, FALSE, Num(60))],
       \* 10: funding ceiling 0 (the default of scripts/seed_simple.py), and a type
       \* that is none of the four
       [score |-> 65,
        payload |-> SeedPayload(Num(0), Laufend)],
       \* 11: an imported program whose what_is_funded is null
       [score |-> 55,
        payload |-> ImportPayload(Laufend, None)] >>

\* the point the store holds for catalogue entry k
Point(k) == [id |-> k, score |-> Catalogue[k].score, payload |-> Catalogue[k].payload]

\* the budgets a caller sends: none, 0, 100000, 300000
Budgets == {None, Num(0), Num(100000), Num(300000)}

\* the project description a caller sends
ProjectText == Str(<<"K", "I">>)

\* the limits a caller of GrantMatcher.search_grants sends (5 is the default)
Limits == {1, 5}

\* the calls of GrantMatcher.search_grants: a description, a budget, a limit
GmRequests == { GmArgs(ProjectText, None, b, None, l) : b \in Budgets, l \in Limits }

\* the requests to POST /search: a description and a budget
ApiRequests == { GrantSearch(ProjectText, None, None, b, None) : b \in Budgets }

\* most points the store holds
MaxStore == 2

\* most advances of the clock
MaxTicks == 2

\* the days the clock starts on: 60 and 30 days before 2025-06-30, and that day
StartDays == { Ordinal(2025, 5, 1), Ordinal(2025, 5, 31), Ordinal(2025, 6, 30) }

(***************************************************************************)
(* The state machine                                                       *)
(***************************************************************************)
Init ==
    /\ now \in {[day |-> d, sec |-> 0] : d \in StartDays}
    /\ ticks = 0
    /\ store = <<>>
    /\ inflight = NoReq
    /\ resp = NoResp

\* upsert_grant of a program the store does not hold yet
Upsert(k) ==
    /\ Len(store) < MaxStore
    /\ \A i \in 1..Len(store) : store[i].id # k
    /\ store' = Append(store, Point(k))
    /\ resp' = NoResp
    /\ UNCHANGED <<now, ticks, inflight>>

\* twelve hours pass
Tick ==
    /\ ticks < MaxTicks
    /\ ticks' = ticks + 1
    /\ now' = IF now.sec + 12 * 3600 < 86400
              THEN [day |-> now.day, sec |-> now.sec + 12 * 3600]
              ELSE [day |-> now.day + 1, sec |-> now.sec + 12 * 3600 - 86400]
    /\ resp' = NoResp
    /\ UNCHANGED <<store, inflight>>

\* GrantMatcher.search_grants up to its await of embed_text: the query text is
\* built, and the embedding call is issued unless building it raised
GmStart(args) ==
    /\ inflight = NoReq
    /\ LET q == _build_query_text(args.project_description, args.company_info,
                                  args.budget, args.location)
       IN  IF q.raised
           THEN /\ resp' = [h |-> "gm", status |-> "error", stage |-> "query",
                            budget |-> args.budget, limit |-> args.limit,
                            req |-> args, log |-> <<>>]
                /\ inflight' = inflight
           ELSE /\ inflight' = [h |-> "gm", budget |-> args.budget, limit |-> args.limit,
                                req |-> args, query_text |-> q.text,
                                log |-> <<"embed">>]
                /\ resp' = NoResp
    /\ UNCHANGED <<now, ticks, store>>

\* GrantMatcher.search_grants from the embedding to its return
GmFinish ==
    /\ inflight.h = "gm"
    /\ resp' = [GmResponse(inflight.budget, inflight.limit) EXCEPT !.log = inflight.log \o @]
    /\ inflight' = NoReq
    /\ UNCHANGED <<now, ticks, store>>

\* POST /search up to its await of embed_text: 400 when no field gave a part
ApiStart(search_params) ==
    /\ inflight = NoReq
    /\ LET query_parts == ApiQueryParts(search_params)
       IN  IF query_parts = <<>>
           THEN /\ resp' = [h |-> "api", status |-> "invalid", stage |-> "query",
                            budget |-> search_params.budget,
                            req |-> search_params, log |-> <<>>]
                /\ inflight' = inflight
           ELSE /\ inflight' = [h |-> "api", budget |-> search_params.budget,
                                req |-> search_params,
                                query_text |-> Join(query_parts, <<" ">>),
                                log |-> <<"embed">>]
                /\ resp' = NoResp
    /\ UNCHANGED <<now, ticks, store>>

\* POST /search from the embedding to its return
ApiFinish ==
    /\ inflight.h = "api"
    /\ resp' = [ApiResponse(inflight.budget) EXCEPT !.log = inflight.log \o @]
    /\ inflight' = NoReq
    /\ UNCHANGED <<now, ticks, store>>

\* EmbeddingFails with the exception swallowed: an empty list is returned
EmbeddingFails_swallowed ==
    /\ inflight.h \in {"gm", "api"}
    /\ resp' = [h |-> inflight.h, status |-> "ok", stage |-> "embed",
                budget |-> inflight.budget, limit |-> 5, log |-> inflight.log,
                raw |-> <<>>, filtered |-> <<>>, ranked |-> <<>>, result |-> <<>>,
                grants |-> <<>>, srcs |-> <<>>]
    /\ inflight' = NoReq
    /\ UNCHANGED <<now, ticks, store>>

\* embed_text raises: the exception leaves the handler
EmbeddingFails ==
    /\ inflight.h \in {"gm", "api"}
    /\ resp' = [h |-> inflight.h, status |-> "error", stage |-> "embed",
                budget |-> inflight.budget, log |-> inflight.log]
    /\ inflight' = NoReq
    /\ UNCHANGED <<now, ticks, store>>

\* the embedding arrives and search_similar_grants raises: the exception
\* leaves the handler
SearchFails ==
    /\ inflight.h \in {"gm", "api"}
    /\ resp' = [h |-> inflight.h, status |-> "error", stage |-> "search",
                budget |-> inflight.budget, log |-> inflight.log \o <<"search">>]
    /\ inflight' = NoReq
    /\ UNCHANGED <<now, ticks, store>>

\* GET /
ListGrants ==
    /\ inflight = NoReq
    /\ resp' = ListResponse
    /\ UNCHANGED <<now, ticks, store, inflight>>

Next ==
    \/ \E k \in DOMAIN Catalogue : Upsert(k)
    \/ Tick
    \/ \E args \in GmRequests : GmStart(args)
    \/ GmFinish
    \/ \E search_params \in ApiRequests : ApiStart(search_params)
    \/ ApiFinish
    \/ EmbeddingFails
    \/ SearchFails
    \/ ListGrants

Spec == Init /\ [][Next]_vars

(***************************************************************************)
(* Specification of the query composition: every combination of present,   *)
(* empty and absent request fields, on both search entry points, over an   *)
(* empty store.                                                            *)
(***************************************************************************)
QueryTexts(t) == {None, Str(<<>>), Str(t)}

QueryNumbers(n) == {None, Num(0), Num(n)}

\* the request bodies of POST /search
QuerySearches ==
    { GrantSearch(d, i, c, b, l) :
        d \in QueryTexts(<<"K", "I">>), i \in QueryTexts(<<"I", "T">>),
        c \in QueryNumbers(25), b \in QueryNumbers(50000),
        l \in QueryTexts(<<"U", "l", "m">>) }

\* company_info: None, {}, or a dict with industry, company_size or both
CompanyInfos ==
    { None, Dict(<<>>),
      Dict([industry |-> Str(<<"I", "T">>)]),
      Dict([company_size |-> Num(25)]),
      Dict([industry |-> Str(<<"I", "T">>), company_size |-> Num(25)]) }

\* the argument lists of GrantMatcher.search_grants
QueryArgs ==
    { GmArgs(d, ci, b, l, 5) :
        d \in QueryTexts(<<"K", "I">>), ci \in CompanyInfos,
        b \in QueryNumbers(50000), l \in QueryTexts(<<"U", "l", "m">>) }

InitQuery ==
    /\ now = [day |-> Ordinal(2025, 5, 1), sec |-> 0]
    /\ ticks = 0
    /\ store = <<>>
    /\ inflight = NoReq
    /\ resp = NoResp

NextQuery ==
    \/ \E search_params \in QuerySearches : ApiStart(search_params)
    \/ \E args \in QueryArgs : GmStart(args)
    \/ ApiFinish
    \/ GmFinish
    \/ EmbeddingFails
    \/ SearchFails

SpecQuery == InitQuery /\ [][NextQuery]_vars

(***************************************************************************)
(* Claims                                                                  *)
(***************************************************************************)
IndexOf(x, s) == CHOOSE i \in 1..Len(s) : s[i] = x

\* a holds elements of b only, in the order b holds them
IsSubsequence(a, b) ==
    /\ \A i \in 1..Len(a) : InSeq(a[i], b)
    /\ \A i, j \in 1..Len(a) : i < j => IndexOf(a[i], b) < IndexOf(a[j], b)

GmOk == resp.h = "gm" /\ resp.status = "ok"
ApiOk == resp.h = "api" /\ resp.status = "ok"
ListOk == resp.h = "list" /\ resp.status = "ok"

IsContinuous(payload) == Truthy(Get(payload, "is_continuous", None))

\* the Deadline Validator's verdict on a payload's deadline
ValidatorOpen(payload) == is_deadline_valid(Get(payload, "deadline", None), Today)

\* the payload carries a funding ceiling: a number greater than 0
HasCeiling(payload) ==
    /\ "max_funding" \in DOMAIN payload
    /\ payload["max_funding"].t = "num"
    /\ payload["max_funding"].v > 0

\* the payload's deadline is an ISO datetime
IsoDeadline(payload) ==
    /\ "deadline" \in DOMAIN payload
    /\ payload["deadline"].t = "str"
    /\ fromisoformat(ReplaceZ(payload["deadline"].v)).ok

IsoInstant(payload) == OnClock(fromisoformat(ReplaceZ(payload["deadline"].v)))

\* C1: no expired program is returned by a search: every program returned by
\* GrantMatcher.search_grants or by POST /search has a deadline the Deadline
\* Validator judges valid (a continuous program apart).
C1_NoExpiredReturned ==
    /\ GmOk => \A i \in 1..Len(resp.result) :
                  \/ IsContinuous(resp.result[i].payload)
                  \/ ValidatorOpen(resp.result[i].payload)
    /\ ApiOk => \A i \in 1..Len(resp.srcs) :
                  \/ IsContinuous(resp.srcs[i].payload)
                  \/ ValidatorOpen(resp.srcs[i].payload)

\* C2: budget rule of _filter_by_criteria: for a caller budget B and a
\* candidate with a funding ceiling M > 0, the candidate is dropped when B > M
\* and, unless the filter's deadline rule drops it (its ISO deadline lies before
\* now), retained when B <= M; the survivors keep their input order.
C2_BudgetRule ==
    (GmOk /\ resp.budget.t = "num") =>
        /\ \A i \in 1..Len(resp.raw) :
              LET r == resp.raw[i]
                  passed == IsoDeadline(r.payload) /\ Before(IsoInstant(r.payload), now)
              IN  HasCeiling(r.payload) =>
                    /\ resp.budget.v > r.payload["max_funding"].v => ~InSeq(r, resp.filtered)
                    /\ (resp.budget.v <= r.payload["max_funding"].v /\ ~passed)
                          => InSeq(r, resp.filtered)
        /\ IsSubsequence(resp.filtered, resp.raw)

\* witness of C2: one budget drops a candidate and retains another
C2_Witness ==
    /\ GmOk /\ resp.budget.t = "num"
    /\ \E i, j \in 1..Len(resp.raw) :
          /\ HasCeiling(resp.raw[i].payload) /\ HasCeiling(resp.raw[j].payload)
          /\ resp.budget.v > resp.raw[i].payload["max_funding"].v
          /\ resp.budget.v <= resp.raw[j].payload["max_funding"].v
          /\ ~InSeq(resp.raw[i], resp.filtered)
          /\ InSeq(resp.raw[j], resp.filtered)

\* C3: POST /search applies the budget rule: with a budget B in the request, no
\* returned grant has a max_funding greater than 0 and smaller than B.
C3_ApiBudgetRule ==
    (ApiOk /\ resp.budget.t = "num") =>
        \A i \in 1..Len(resp.grants) :
            ~(resp.grants[i].max_funding > 0 /\ resp.grants[i].max_funding < resp.budget.v)

\* less than n days lie between now and the instant d
LessThanDaysLeft(d, n) ==
    \/ d.day - now.day < n
    \/ (d.day - now.day = n /\ d.sec < now.sec)

\* the urgency multiplier of the Ranker formula, in tenths
C4_UrgencyOf(payload) ==
    IF IsContinuous(payload) \/ ~IsoDeadline(payload) THEN 10
    ELSE IF LessThanDaysLeft(IsoInstant(payload), 30) THEN 12
    ELSE IF LessThanDaysLeft(IsoInstant(payload), 60) THEN 11
    ELSE 10

HasRate(payload) ==
    /\ "historical_success_rate" \in DOMAIN payload
    /\ payload["historical_success_rate"].t = "num"

\* C4: Ranker formula: the match_score _rank_grants assigns to a candidate that
\* carries a success rate is similarity * (1 + rate * 0.5) * urgency, with
\* urgency 1.2 when less than 30 days remain until the deadline, 1.1 when at
\* least 30 and less than 60 remain, 1.0 otherwise, and 1.0 for a continuous
\* program and for a missing or unparseable deadline.
C4_RankerFormula ==
    GmOk => \A i \in 1..Len(resp.ranked) :
                LET r == resp.ranked[i]
                IN  HasRate(r.payload) =>
                      r.match_score =
                        r.score * (200 + r.payload["historical_success_rate"].v)
                                * C4_UrgencyOf(r.payload)

\* witness of C4: a ranked candidate with at least 30 and less than 60 days left
C4_Witness ==
    /\ GmOk
    /\ \E i \in 1..Len(resp.ranked) :
          /\ HasRate(resp.ranked[i].payload)
          /\ C4_UrgencyOf(resp.ranked[i].payload) = 11
          /\ resp.ranked[i].match_score > resp.ranked[i].score * 200 * 10

\* C5: in the POST /search response the match_score of a grant is the Ranker's
\* boosted score, and the list is ordered by it, highest first.
C5_ApiScoreIsBoosted ==
    ApiOk =>
        /\ \A i \in 1..Len(resp.grants) :
              HasRate(resp.srcs[i].payload) =>
                resp.grants[i].match_score =
                    resp.srcs[i].score
                      * (200 + resp.srcs[i].payload["historical_success_rate"].v)
                      * C4_UrgencyOf(resp.srcs[i].payload)
        /\ \A i, j \in 1..Len(resp.grants) :
              i < j => resp.grants[i].match_score >= resp.grants[j].match_score

\* C6: GrantMatcher.search_grants returns the top `limit` of the ranking: at
\* most `limit` entries (all survivors when there are fewer), match_score
\* non-increasing, no survivor left out scores above a returned one, and the
\* ranking is a permutation of the filtered candidates.
C6_TopLimit ==
    GmOk =>
        /\ Len(resp.result) <= resp.limit
        /\ Len(resp.result) = Len(resp.filtered) \/ Len(resp.result) = resp.limit
        /\ \A i, j \in 1..Len(resp.result) :
              i < j => resp.result[i].match_score >= resp.result[j].match_score
        /\ \A i \in 1..Len(resp.result) : InSeq(Unscored(resp.result[i]), resp.filtered)
        /\ \A i \in 1..Len(resp.ranked), j \in 1..Len(resp.result) :
              ~InSeq(resp.ranked[i], resp.result)
                  => resp.ranked[i].match_score <= resp.result[j].match_score
        /\ Len(resp.ranked) = Len(resp.filtered)
        /\ \A i \in 1..Len(resp.filtered) :
              Cardinality({j \in 1..Len(resp.ranked) : Unscored(resp.ranked[j]) = resp.filtered[i]})
                = Cardinality({j \in 1..Len(resp.filtered) : resp.filtered[j] = resp.filtered[i]})

\* witness of C6: more survivors than `limit`, and the ranking moves the most
\* similar survivor off the first place
C6_Witness ==
    /\ GmOk
    /\ Len(resp.filtered) > resp.limit
    /\ Len(resp.result) = resp.limit
    /\ Unscored(resp.result[1]) # resp.filtered[1]

ValidatorDone == resp.h = "is_deadline_valid"

\* the text is one of the continuous sentinels, in any case, blanks around it apart
IsSentinel(s) == Strip(Lower(s)) \in ContinuousWords

\* pattern k matches somewhere in the text
Matches(s, k) == DatePatterns(s)[k] # NoMatch

\* pattern k matches and its numbers name a calendar date
YieldsDate(s, k) ==
    LET m == DatePatterns(s)[k]
    IN  m # NoMatch /\ ValidDate(m[1], m[2], m[3])

DateOf(s, k) ==
    LET m == DatePatterns(s)[k]
    IN  Ordinal(m[1], m[2], m[3])

\* C7 as claimed: for a non-sentinel text the first pattern, in the order ISO,
\* German, short German, M/YYYY, year, that matches decides alone: the answer
\* is true iff its date is >= today (true when its numbers name no date).
C7_FirstMatchDecides ==
    (ValidatorDone /\ resp.deadline.t = "str" /\ ~IsSentinel(resp.deadline.v)) =>
        LET s == resp.deadline.v
            matched == {k \in 1..5 : Matches(s, k)}
        IN  matched # {} =>
              resp.valid = (IF YieldsDate(s, MinOf(matched))
                            THEN DateOf(s, MinOf(matched)) >= Today
                            ELSE TRUE)

\* C7, amended: for a non-sentinel text the first pattern, in the order ISO,
\* German, short German (year 2000+YY), M/YYYY (the 28th), year (31 December),
\* that matches AND whose numbers name a calendar date decides: the answer is
\* true iff that date is >= today, so a deadline equal to today is valid; a
\* match that names no calendar date is skipped and the later patterns are tried.
C7_FirstDateDecides ==
    (ValidatorDone /\ resp.deadline.t = "str" /\ ~IsSentinel(resp.deadline.v)) =>
        LET s == resp.deadline.v
            dated == {k \in 1..5 : YieldsDate(s, k)}
        IN  dated # {} => resp.valid = (DateOf(s, MinOf(dated)) >= Today)

\* witness of C7: the first pattern that matches names no calendar date, a later
\* pattern names today, and the answer is true
C7_Witness ==
    /\ ValidatorDone /\ resp.deadline.t = "str" /\ ~IsSentinel(resp.deadline.v)
    /\ \E k \in 1..5 :
          /\ Matches(resp.deadline.v, k) /\ ~YieldsDate(resp.deadline.v, k)
          /\ \A j \in 1..(k - 1) : ~Matches(resp.deadline.v, j)
    /\ \E k \in 1..5 :
          /\ YieldsDate(resp.deadline.v, k)
          /\ \A j \in 1..(k - 1) : ~YieldsDate(resp.deadline.v, j)
          /\ DateOf(resp.deadline.v, k) = Today
    /\ resp.valid

\* C8: fail-open: is_deadline_valid answers false only when one of the five
\* patterns matches and yields a date strictly before today; for a missing or
\* empty value, for a sentinel in any case and for a text no pattern can parse
\* it answers true.
C8_FailOpen ==
    ValidatorDone =>
        LET d == resp.deadline
        IN  /\ ~resp.valid =>
                  /\ d.t = "str"
                  /\ \E k \in 1..5 : YieldsDate(d.v, k) /\ DateOf(d.v, k) < Today
            /\ (d.t = "none" \/ d.v = <<>>) => resp.valid
            /\ (d.t = "str" /\ \E w \in ContinuousWords :
                    /\ Len(w) = Len(d.v)
                    /\ \A i \in 1..Len(w) : LowerChar(d.v[i]) = w[i]) => resp.valid
            /\ (d.t = "str" /\ \A k \in 1..5 : ~YieldsDate(d.v, k)) => resp.valid

\* witness of C8: a text that is no sentinel and that no pattern matches
C8_Witness ==
    /\ ValidatorDone
    /\ resp.deadline.t = "str"
    /\ resp.deadline.v # <<>>
    /\ ~IsSentinel(resp.deadline.v)
    /\ \A k \in 1..5 : ~Matches(resp.deadline.v, k)
    /\ resp.valid

\* the budget rule of the Eligibility Filter fires on the payload
BudgetRuleFires(payload, budget) ==
    /\ budget.t = "num"
    /\ HasCeiling(payload)
    /\ budget.v > payload["max_funding"].v

\* C9: _filter_by_criteria retains every candidate whose deadline the Deadline
\* Validator judges valid, unless the budget rule fires; in particular one whose
\* deadline is today, at any time of the day.
C9_OpenProgramKept ==
    GmOk => \A i \in 1..Len(resp.raw) :
                (/\ ValidatorOpen(resp.raw[i].payload)
                 /\ ~BudgetRuleFires(resp.raw[i].payload, resp.budget))
                    => InSeq(resp.raw[i], resp.filtered)

\* C10: a continuous program is never dropped for its deadline: by
\* _filter_by_criteria (unless the budget rule fires), by POST /search and by
\* GET /, a result whose payload has is_continuous = true is kept.
C10_ContinuousNeverExpired ==
    /\ GmOk => \A i \in 1..Len(resp.raw) :
                  (/\ IsContinuous(resp.raw[i].payload)
                   /\ ~BudgetRuleFires(resp.raw[i].payload, resp.budget))
                      => InSeq(resp.raw[i], resp.filtered)
    /\ (ApiOk /\ Len(resp.grants) < ApiMaxGrants) =>
            \A i \in 1..Len(resp.raw) :
                IsContinuous(resp.raw[i].payload) => InSeq(resp.raw[i], resp.srcs)
    /\ ListOk => \A i \in 1..Len(resp.raw) :
                    IsContinuous(resp.raw[i].payload) => InSeq(resp.raw[i], resp.srcs)

\* the budget rule of _filter_by_criteria has run on the request's candidates
GmFiltered == resp.h = "gm" /\ resp.stage \in {"filter", "rank", "return"}

\* C11: a missing funding ceiling never excludes: for every caller budget, a
\* candidate whose max_funding is absent, null or not greater than 0 is retained
\* by the budget rule of _filter_by_criteria (it is dropped by the deadline rule
\* at most), and the filter completes without error on such a candidate.
C11_MissingCeilingKept ==
    GmFiltered =>
        /\ (\A i \in 1..Len(resp.raw) : ~HasCeiling(resp.raw[i].payload))
              => resp.stage # "filter"
        /\ resp.stage # "filter" =>
              \A i \in 1..Len(resp.raw) :
                  (/\ ~HasCeiling(resp.raw[i].payload)
                   /\ DeadlineCheck(resp.raw[i].payload) = "keep")
                      => InSeq(resp.raw[i], resp.filtered)

\* the payload's success rate is unknown: the key is absent, or its value is null
RateUnknown(payload) ==
    \/ "historical_success_rate" \notin DOMAIN payload
    \/ payload["historical_success_rate"].t = "none"

\* C12: a candidate whose historical_success_rate is unknown (key absent or
\* null) is ranked by _rank_grants as if its rate were the default 0.60: its
\* match_score is similarity * (1 + 0.60 * 0.5) * urgency, and the ranking
\* does not fail on it.
C12_UnknownRateDefault ==
    /\ GmOk => \A i \in 1..Len(resp.ranked) :
                  RateUnknown(resp.ranked[i].payload) =>
                      resp.ranked[i].match_score =
                          resp.ranked[i].score * (200 + DefaultSuccessRate)
                                               * C4_UrgencyOf(resp.ranked[i].payload)
    /\ (resp.h = "gm" /\ resp.stage = "rank") =>
            \E i \in 1..Len(resp.filtered) :
                /\ "historical_success_rate" \in DOMAIN resp.filtered[i].payload
                /\ resp.filtered[i].payload["historical_success_rate"].t \notin {"num", "none"}

(***************************************************************************)
(* Specification of the Ranker alone: one call of _rank_grants on a list   *)
(* of candidates, in any order, at the start of a day.                     *)
(***************************************************************************)
\* a candidate as the store returns it
Candidate(id, score, rate, deadline) ==
    [id |-> id, score |-> score,
     payload |-> TaskPayload(Num(500000), deadline, FALSE, Num(rate))]

\* candidates with equal similarities and different rates, with and without a
\* deadline, and two whose boosted scores are equal (0.60 * 1.25 = 0.75 * 1.0)
RankCandidates ==
    { Candidate(1, 60, 50, None),
      Candidate(2, 75, 0, None),
      Candidate(3, 80, 50, Str(IsoText(2025, 6, 30))),
      Candidate(4, 80, 80, None),
      Candidate(5, 80, 50, None),
      Candidate(6, 80, 80, Str(IsoText(2025, 6, 30))) }

\* longest list given to the Ranker
MaxRanked == 3

\* the lists of at most MaxRanked different candidates, in every order
RankInputs ==
    UNION { { s \in [1..n -> RankCandidates] : \A i, j \in 1..n : i # j => s[i] # s[j] }
            : n \in 1..MaxRanked }

InitRanker ==
    /\ now \in {[day |-> d, sec |-> 0] : d \in StartDays}
    /\ ticks = 0
    /\ store = <<>>
    /\ inflight \in {[h |-> "_rank_grants", results |-> s] : s \in RankInputs}
    /\ resp = NoResp

CallRanker ==
    /\ inflight.h = "_rank_grants"
    /\ resp' = [h |-> "_rank_grants",
                results |-> inflight.results,
                raised |-> _rank_grants(inflight.results).raised,
                ranked |-> _rank_grants(inflight.results).out]
    /\ inflight' = NoReq
    /\ UNCHANGED <<now, ticks, store>>

NextRanker == CallRanker

SpecRanker == InitRanker /\ [][NextRanker]_vars

RankerDone == resp.h = "_rank_grants" /\ ~resp.raised

RateOf(r) == r.payload["historical_success_rate"].v

FieldsOf(h, req) ==
    IF h = "api" THEN req
    ELSE [project_description |-> req.project_description,
          industry |-> IF req.company_info.t = "dict"
                       THEN Get(req.company_info.v, "industry", None) ELSE None,
          company_size |-> IF req.company_info.t = "dict"
                           THEN Get(req.company_info.v, "company_size", None) ELSE None,
          budget |-> req.budget,
          location |-> req.location]

\* the budget as the entry point writes it: POST /search holds a float,
\* GrantMatcher the caller's int
BudgetText(h, budget) == IF h = "api" THEN StrOfFloat(budget.v) ELSE StrOfInt(budget.v)

\* the segments of the query text: one per field that is present (neither
\* absent nor empty), in the order description, industry, company size,
\* budget, location, with the German labels
C15_Segments(h, f) ==
    (IF Truthy(f.project_description) THEN << f.project_description.v >> ELSE <<>>)
    \o (IF Truthy(f.industry) THEN << <<"B", "r", "a", "n", "c", "h", "e", ":", " ">> \o f.industry.v >> ELSE <<>>)
    \o (IF Truthy(f.company_size)
        THEN << <<"U", "n", "t", "e", "r", "n", "e", "h", "m", "e", "n", "s", "g", "r", "ö", "ß", "e", ":", " ">> \o StrOfInt(f.company_size.v) \o <<" ", "M", "i", "t", "a", "r", "b", "e", "i", "t", "e", "r">> >>
        ELSE <<>>)
    \o (IF Truthy(f.budget)
        THEN << <<"B", "u", "d", "g", "e", "t", ":", " ">> \o BudgetText(h, f.budget) \o <<" ", "E", "U", "R">> >> ELSE <<>>)
    \o (IF Truthy(f.location) THEN << <<"S", "t", "a", "n", "d", "o", "r", "t", ":", " ">> \o f.location.v >> ELSE <<>>)

\* C15: query composition: the query text sent to the embedding provider, by
\* POST /search and by GrantMatcher.search_grants, consists of exactly the
\* present fields' segments, joined by one blank, in the order description,
\* "Branche: ...", "Unternehmensgröße: ... Mitarbeiter", "Budget: ... EUR",
\* "Standort: ..."; an absent field contributes nothing.
C15_QueryComposition ==
    inflight.h \in {"api", "gm"} =>
        inflight.query_text =
            Join(C15_Segments(inflight.h, FieldsOf(inflight.h, inflight.req)), <<" ">>)

\* the description and every optional field are empty or absent
AllEmpty(f) ==
    /\ ~Truthy(f.project_description) /\ ~Truthy(f.industry)
    /\ ~Truthy(f.company_size) /\ ~Truthy(f.budget) /\ ~Truthy(f.location)

\* C16: InvalidQuery: on both search entry points a request whose description
\* and optional fields are all empty or absent fails with a client error
\* before any call to the embedding provider or the vector store, and a
\* request with a usable field does not fail with InvalidQuery.
C16_InvalidQuery ==
    /\ inflight.h \in {"api", "gm"} => ~AllEmpty(FieldsOf(inflight.h, inflight.req))
    /\ (resp.h \in {"api", "gm"} /\ resp.stage = "query") =>
          /\ resp.log = <<>>
          /\ (resp.status = "invalid") = AllEmpty(FieldsOf(resp.h, resp.req))

\* a is b or the first elements of b
IsPrefix(a, b) == Len(a) <= Len(b) /\ SubSeq(b, 1, Len(a)) = a

\* C17: pipeline order within one GrantMatcher.search_grants request: the
\* embedding call completes before the vector search starts, the filter runs
\* after the search and the ranking after the filter, each step at most once
\* and, in a request that returns, exactly once; no candidate the filter
\* dropped is given a match_score.
C17_PipelineOrder ==
    /\ inflight.h = "gm" => inflight.log = <<"embed">>
    /\ resp.h = "gm" =>
          /\ IsPrefix(resp.log, <<"embed", "search", "filter", "rank">>)
          /\ resp.status = "ok" =>
                /\ resp.log = <<"embed", "search", "filter", "rank">>
                /\ \A i \in 1..Len(resp.raw) : "match_score" \notin DOMAIN resp.raw[i]
                /\ \A i \in 1..Len(resp.ranked) :
                      /\ "match_score" \in DOMAIN resp.ranked[i]
                      /\ InSeq(Unscored(resp.ranked[i]), resp.filtered)
                /\ \A i \in 1..Len(resp.raw) :
                      ~InSeq(resp.raw[i], resp.filtered)
                          => \A j \in 1..Len(resp.ranked) :
                                Unscored(resp.ranked[j]) # resp.raw[i]

\* witness of C17: a request that returned, in which the filter dropped one
\* candidate of the search and the Ranker scored another
C17_Witness ==
    /\ GmOk
    /\ resp.log = <<"embed", "search", "filter", "rank">>
    /\ \E i \in 1..Len(resp.raw) : ~InSeq(resp.raw[i], resp.filtered)
    /\ Len(resp.ranked) > 0

\* C18: request-level failures fail the whole request without retry: when
\* the embedding call fails it was attempted exactly once, the vector store
\* was never queried and the request ends in an error; when the vector search
\* fails the request ends in an error; in neither case does the response
\* carry a result list.
C18_FailWholeRequest ==
    resp.h \in {"gm", "api"} =>
        /\ resp.stage = "embed" =>
              /\ resp.status = "error"
              /\ resp.log = <<"embed">>
              /\ DOMAIN resp \cap {"result", "grants"} = {}
        /\ resp.stage = "search" =>
              /\ resp.status = "error"
              /\ resp.log = <<"embed", "search">>
              /\ DOMAIN resp \cap {"result", "grants"} = {}

\* witness of C18: the embedding call of a search fails while the store holds
\* a program the search would have returned
C18_Witness ==
    /\ resp.h = "gm" /\ resp.stage = "embed" /\ resp.status = "error"
    /\ \E i \in 1..Len(store) : store[i].score >= GmScoreThreshold

\* the handler of POST /search or GET / has fetched its batch from the store
BatchFetched ==
    resp.h \in {"api", "list"} /\ resp.stage \in {"convert", "response_model", "return"}

\* C19: skip-and-continue on a malformed record: whatever payloads the batch
\* of store results holds, POST /search and GET / answer with the records they
\* could build; no payload makes the whole request fail.
C19_SkipAndContinue == BatchFetched => resp.status = "ok"

\* C20: every grant record that the handler of POST /search or of GET /
\* returns has a type among federal, state, eu, municipal and a category among
\* innovation, digitalization, green_tech, export, training, regional, for
\* every stored payload.
C20_EnumsResolved ==
    (BatchFetched /\ resp.stage # "convert") =>
        \A i \in 1..Len(resp.returned) :
            /\ resp.returned[i].type \in GrantType
            /\ resp.returned[i].category \in GrantCategory


(***************************************************************************)
(* The normalisation of stored records by the three handlers of           *)
(* api/v1/grants.py, over stores of records as the import and seed         *)
(* scripts write them.                                                     *)
(***************************************************************************)
\* payload of scripts/import_foerderdatenbank.py
ImportRecord(title, url, funding_amount) ==
    [title |-> Str(title), description |-> Str(title), url |-> Str(url),
     who_is_funded |-> Str(<<"K", "M", "U">>), what_is_funded |-> Str(<<"F", "o", "r", "s", "c", "h", "u", "n", "g">>),
     funder |-> Str(<<"B", "u", "n", "d">>), funding_type |-> Str(<<"Z", "u", "s", "c", "h", "u", "s", "s">>),
     region |-> Str(<<"D", "e", "u", "t", "s", "c", "h", "l", "a", "n", "d">>), deadline |-> Laufend,
     funding_amount |-> Str(funding_amount),
     source |-> Str(<<"f", "o", "e", "r", "d", "e", "r", "d", "a", "t", "e", "n", "b", "a", "n", "k", ".", "d", "e">>), category |-> Str(<<"b", "u", "n", "d", "e", "s", "f", "ö", "r", "d", "e", "r", "u", "n", "g">>)]

\* payload of scripts/seed_simple.py
SeedSimpleRecord(name, url, max_funding) ==
    [name |-> Str(name), description |-> Str(name), funder |-> Str(<<"B", "u", "n", "d">>),
     type |-> Str(<<"f", "e", "d", "e", "r", "a", "l">>), category |-> Str(<<"i", "n", "n", "o", "v", "a", "t", "i", "o", "n">>), url |-> Str(url),
     max_funding |-> Num(max_funding), deadline |-> Laufend,
     who_is_funded |-> Str(<<"K", "M", "U">>), what_is_funded |-> Str(<<>>),
     region |-> Str(<<"D", "e", "u", "t", "s", "c", "h", "l", "a", "n", "d">>)]

\* payload of scripts/seed_grants.py
SeedGrantRecord(external_id, name, website_url, max_funding) ==
    [external_id |-> Str(external_id), name |-> Str(name),
     type |-> Str(<<"f", "e", "d", "e", "r", "a", "l">>), category |-> Str(<<"i", "n", "n", "o", "v", "a", "t", "i", "o", "n">>),
     max_funding |-> Num(max_funding), description |-> Str(name),
     deadline |-> None, is_continuous |-> Bool(TRUE),
     historical_success_rate |-> Num(65), website_url |-> website_url]

\* a grant of POST /search, stored as a payload
AsPayload(grant) ==
    [id |-> grant.id, name |-> grant.name, type |-> grant.type,
     category |-> grant.category, max_funding |-> Num(grant.max_funding),
     deadline |-> grant.deadline, description |-> grant.description,
     eligibility |-> grant.eligibility, success_rate |-> grant.success_rate,
     match_score |-> Num(grant.match_score)]

UrlZim == <<"h", "t", "t", "p", "s", ":", "/", "/", "f", "d", "b", ".", "d", "e", "/", "z", "i", "m">>
UrlKmu == <<"h", "t", "t", "p", "s", ":", "/", "/", "f", "d", "b", ".", "d", "e", "/", "k", "m", "u">>
UrlExist == <<"h", "t", "t", "p", "s", ":", "/", "/", "f", "d", "b", ".", "d", "e", "/", "e", "x", "i", "s", "t">>
UrlEic == <<"h", "t", "t", "p", "s", ":", "/", "/", "f", "d", "b", ".", "d", "e", "/", "e", "i", "c">>
UrlGo == <<"h", "t", "t", "p", "s", ":", "/", "/", "f", "d", "b", ".", "d", "e", "/", "g", "o">>

\* the records the stores are drawn from, by store key
Records ==
    [k \in 101..111 |->
        CASE k = 101 -> [id |-> k, score |-> 90, payload |->
                         ImportRecord(<<"Z", "I", "M">>, UrlZim, <<"b", "i", "s", " ", "5", "0", "0", ".", "0", "0", "0", " ", "E", "U", "R">>)]
          [] k = 102 -> [id |-> k, score |-> 85, payload |->
                         ImportRecord(<<"K", "M", "U", "-", "i", "n", "n", "o", "v", "a", "t", "i", "v">>, UrlKmu, <<"b", "i", "s", " ", "z", "u", " ", "5", "0", "0", ".", "0", "0", "0", " ", "E", "U", "R", ",", " ", "m", "i", "n", "d", "e", "s", "t", "e", "n", "s", " ", "1", "0", ".", "0", "0", "0", " ", "E", "U", "R">>)]
          [] k = 103 -> [id |-> k, score |-> 80, payload |->
                         ImportRecord(<<"E", "X", "I", "S", "T">>, UrlExist, <<"5", "0", ".", "0", "0", "0", " ", "-", " ", "2", "0", "0", ".", "0", "0", "0", " ", "E", "U", "R">>)]
          [] k = 104 -> [id |-> k, score |-> 75, payload |->
                         ImportRecord(<<"E", "I", "C">>, UrlEic, <<"b", "i", "s", " ", "2", ",", "5", " ", "M", "i", "o", ".", " ", "E", "U", "R">>)]
          [] k = 105 -> [id |-> k, score |-> 70, payload |->
                         ImportRecord(<<"g", "o", "-", "d", "i", "g", "i", "t", "a", "l">>, UrlGo, <<"N", "i", "c", "h", "t", " ", "a", "n", "g", "e", "g", "e", "b", "e", "n">>)]
          [] k = 106 -> [id |-> k, score |-> 88, payload |->
                         SeedSimpleRecord(<<"Z", "I", "M">>, UrlZim, 500000)]
          [] k = 107 -> [id |-> k, score |-> 82, payload |->
                         SeedGrantRecord(<<"z", "i", "m", "-", "0", "0", "1">>, <<"Z", "I", "M">>, Str(<<"h", "t", "t", "p", "s", ":", "/", "/", "z", "i", "m", ".", "d", "e">>), 500000)]
          [] k = 108 -> [id |-> k, score |-> 60, payload |->
                         SeedGrantRecord(<<"e", "u", "-", "0", "0", "2">>, <<"E", "I", "C">>, None, 2500000)]
          [] k = 109 -> [id |-> k, score |-> 65, payload |->
                         SeedSimpleRecord(<<"g", "o", "-", "d", "i", "g", "i", "t", "a", "l">>, <<>>, 0)]
          [] k = 110 -> [id |-> k, score |-> 55, payload |->
                         SeedSimpleRecord(<<"g", "o", "-", "d", "i", "g", "i", "t", "a", "l">>, UrlGo, 16500)]
          [] k = 111 -> [id |-> k, score |-> 90, payload |->
                         AsPayload(SearchGrant([id |-> 101, score |-> 90, payload |->
                             ImportRecord(<<"Z", "I", "M">>, UrlZim, <<"b", "i", "s", " ", "5", "0", "0", ".", "0", "0", "0", " ", "E", "U", "R">>)]).grant)]]

\* the records that also appear in stores of two
PairedRecords == { 101, 102, 106, 107, 109, 110 }

\* the stores: one record, or two different ones in either order
RecordStores ==
    { << Records[k] >> : k \in DOMAIN Records }
    \cup { << Records[p[1]], Records[p[2]] >> :
                p \in { q \in PairedRecords \X PairedRecords : q[1] # q[2] } }

NormRequests == { GrantSearch(ProjectText, None, None, None, None) }

InitNormalizer ==
    /\ now = [day |-> Ordinal(2025, 5, 1), sec |-> 0]
    /\ ticks = 0
    /\ store \in RecordStores
    /\ inflight = NoReq
    /\ resp = NoResp


\* search_grants_by_filter(filter_conditions={key: value}, limit): the first
\* limit points whose payload holds value under key
search_grants_by_filter(key, value, limit) ==
    Take(SelectSeq(store, LAMBDA point :
                       key \in DOMAIN point.payload /\ point.payload[key] = value),
         limit)

\* GET /{grant_id} once the lookup has returned: the HTTPException(404) of an
\* empty result is raised inside the try block, whose "except Exception"
\* answers it with a 500, as it does float(None); a grant_detail the response
\* model GrantDetail rejects is answered 500 as well
DetailResponse(grant_id) ==
    LET results == search_grants_by_filter("url", grant_id, 1)
        payload == results[1].payload
        max_funding == Get(payload, "max_funding", Num(0))
        grant_detail ==
            [id |-> grant_id,
             name |-> GrantName(payload),
             type |-> Get(payload, "type", Str(<<"f", "e", "d", "e", "r", "a", "l">>)),
             category |-> Get(payload, "category", Str(<<"d", "i", "g", "i", "t", "a", "l", "i", "z", "a", "t", "i", "o", "n">>)),
             max_funding |-> max_funding.v,
             deadline |-> Get(payload, "deadline", Laufend),
             description |-> Get(payload, "description", Str(<<>>)),
             eligibility |-> << WhoIsFunded(payload), FunderLine(payload),
                                RegionLine(payload) >>,
             success_rate |-> Get(payload, "historical_success_rate",
                                  Num(DefaultSuccessRate))]
    IN  IF results = <<>>
        THEN [h |-> "detail", grant_id |-> grant_id, status |-> 500,
              raised |-> "not_found", results |-> results]
        ELSE IF max_funding.t # "num"
        THEN [h |-> "detail", grant_id |-> grant_id, status |-> 500,
              raised |-> "build", results |-> results]
        ELSE IF ~ResponseModelOk(<< grant_detail >>)
        THEN [h |-> "detail", grant_id |-> grant_id, status |-> 500,
              raised |-> "response_model", results |-> results]
        ELSE [h |-> "detail", grant_id |-> grant_id, status |-> 200,
              raised |-> "", results |-> results, grant |-> grant_detail]

\* the ids POST /search and GET / give the points of the store
SearchIds == { SearchGrant(store[i]).grant.id :
                 i \in { j \in 1..Len(store) : ~SearchGrant(store[j]).raised
                                               /\ ~SearchGrant(store[j]).skip } }
ListIds == { ListGrant(store[i]).grant.id :
               i \in { j \in 1..Len(store) : ~ListGrant(store[j]).raised
                                             /\ ~ListGrant(store[j]).skip } }

\* an id no record carries
UnknownId == Str(<<"h", "t", "t", "p", "s", ":", "/", "/", "f", "d", "b", ".", "d", "e", "/", "n", "o", "n", "e">>)

\* GET /{grant_id}
GetGrantDetail(grant_id) ==
    /\ inflight = NoReq
    /\ resp' = DetailResponse(grant_id)
    /\ UNCHANGED <<now, ticks, store, inflight>>

\* GET /{grant_id} when search_grants_by_filter raises
DetailLookupFails(grant_id) ==
    /\ inflight = NoReq
    /\ resp' = [h |-> "detail", grant_id |-> grant_id, status |-> 500,
                raised |-> "lookup", results |-> <<>>]
    /\ UNCHANGED <<now, ticks, store, inflight>>

NextNormalizer ==
    \/ \E search_params \in NormRequests : ApiStart(search_params)
    \/ ApiFinish
    \/ ListGrants
    \/ \E grant_id \in SearchIds \cup ListIds \cup { UnknownId } : GetGrantDetail(grant_id)
    \/ \E grant_id \in SearchIds \cup ListIds \cup { UnknownId } : DetailLookupFails(grant_id)

SpecNormalizer == InitNormalizer /\ [][NextNormalizer]_vars


(***************************************************************************)
(* Claims on the normalisation of stored records                           *)
(***************************************************************************)
\* the numbers a funding text holds, in cents, after the thousands dots are
\* removed and the decimal comma is turned into a point
AmountsIn(payload) ==
    LET text == Get(payload, "funding_amount", Str(<<>>))
        numbers == IF text.t = "str" THEN FindNumbers(CleanAmount(text.v), 1) ELSE <<>>
    IN  { FloatCents(numbers[i]) : i \in 1..Len(numbers) }

LargestOf(amounts) == CHOOSE a \in amounts : \A b \in amounts : b <= a

\* max_funding is not stored as a number and the funding text holds numbers
AmountOnlyInText(payload) ==
    /\ Get(payload, "max_funding", None).t # "num"
    /\ AmountsIn(payload) # {}

\* the built grant carries the largest amount of the text of its record
CarriesLargest(g) ==
    (~g.raised /\ ~g.skip /\ AmountOnlyInText(g.src.payload))
    => 100 * g.grant.max_funding + g.grant.max_funding_cents
       = LargestOf(AmountsIn(g.src.payload))

\* C21: when a stored record has no numeric max_funding and its free-text
\* funding amount holds numbers, the max_funding POST /search and GET / give
\* it is the largest of those numbers, wherever in the text it stands.
C21_LargestAmountOfText ==
    (resp.h \in {"api", "list"} /\ resp.status = "ok")
    => \A i \in 1..Len(resp.raw) :
          IF resp.h = "api" THEN CarriesLargest(SearchGrant(resp.raw[i]))
          ELSE CarriesLargest(ListGrant(resp.raw[i]))


\* C22: in every list POST /search returns, each grant has a non-empty id and
\* no two grants have the same id, also when several stored points carry the
\* same url or external_id.
C22_IdsUniqueInResult ==
    (resp.h = "api" /\ resp.status = "ok")
    => /\ \A i \in 1..Len(resp.grants) : Truthy(resp.grants[i].id)
       /\ \A i, j \in 1..Len(resp.grants) :
             i # j => resp.grants[i].id # resp.grants[j].id


\* the fields both handlers give a grant
SharedFields(grant) ==
    [id |-> grant.id, name |-> grant.name, type |-> grant.type,
     category |-> grant.category, max_funding |-> grant.max_funding,
     max_funding_cents |-> grant.max_funding_cents,
     deadline |-> grant.deadline, eligibility |-> grant.eligibility]

\* C23: for every stored payload that passes the deadline check, the grant
\* POST /search builds from it and the grant GET / builds from it have the
\* same id, name, type, category, max_funding, deadline and eligibility.
C23_SearchAndListAgree ==
    (resp.h = "api" /\ resp.status = "ok")
    => \A i \in 1..Len(resp.grants) :
          LET listed == ListGrant(resp.srcs[i])
          IN  /\ ~listed.raised /\ ~listed.skip
              /\ SharedFields(listed.grant) = SharedFields(resp.grants[i])


\* a payload in the shape of a grant of POST /search
Canonical(payload) ==
    { "id", "name", "type", "category", "max_funding", "deadline", "description",
      "eligibility", "success_rate" } \subseteq DOMAIN payload

\* C24: POST /search applied to a stored record that already has the shape of
\* its output returns that record unchanged: same id, name, type, category,
\* max_funding, deadline, description, eligibility and success rate.
C24_NormalizationIdempotent ==
    (resp.h = "api" /\ resp.status = "ok")
    => \A i \in 1..Len(resp.grants) :
          LET payload == resp.srcs[i].payload
              grant == resp.grants[i]
          IN  Canonical(payload)
              => /\ grant.id = payload.id
                 /\ grant.name = payload.name
                 /\ grant.type = payload.type
                 /\ grant.category = payload.category
                 /\ Num(grant.max_funding) = payload.max_funding
                 /\ grant.deadline = payload.deadline
                 /\ grant.description = payload.description
                 /\ grant.eligibility = payload.eligibility
                 /\ grant.success_rate = payload.success_rate


\* the store holds a point whose url is grant_id
Stored(grant_id) ==
    \E i \in 1..Len(store) :
        "url" \in DOMAIN store[i].payload /\ store[i].payload["url"] = grant_id

\* C27: GET /{grant_id} answers 404 when the lookup succeeds and the store
\* holds no grant for the id, and it answers 500 only when the lookup itself
\* fails.
C27_NotFoundIs404 ==
    resp.h = "detail"
    => /\ (resp.raised # "lookup" /\ ~Stored(resp.grant_id)) => resp.status = 404
       /\ resp.status = 500 => resp.raised = "lookup"

\* C28: every id POST /search or GET / gives a stored program can be passed
\* to GET /{grant_id}, which then answers with that program.
C28_IdRoundTrip ==
    (resp.h = "detail" /\ resp.raised # "lookup"
     /\ resp.grant_id \in SearchIds \cup ListIds)
    => /\ resp.status = 200
       /\ \/ (~SearchGrant(resp.results[1]).raised /\ ~SearchGrant(resp.results[1]).skip
              /\ SearchGrant(resp.results[1]).grant.id = resp.grant_id)
          \/ (~ListGrant(resp.results[1]).raised /\ ~ListGrant(resp.results[1]).skip
              /\ ListGrant(resp.results[1]).grant.id = resp.grant_id)
       /\ \A i \in 1..Len(store) :
             (~SearchGrant(store[i]).raised /\ ~SearchGrant(store[i]).skip
              /\ SearchGrant(store[i]).grant.id = resp.grant_id)
             => resp.results[1] = store[i]


(***************************************************************************)
(* Concurrent calls of GrantMatcher.search_grants on the singleton         *)
(* grant_matcher.  A call is a coroutine: its arguments and its locals     *)
(* (query_text, raw_results, filtered_results, ranked_results) live in its *)
(* own frame, the class has no attributes, and search_similar_grants       *)
(* builds new dicts for every call.  The one suspension point is the await *)
(* of embed_text.  Here inflight[s] is the frame of the call in slot s and *)
(* resp[s] what it returned.                                               *)
(***************************************************************************)
\* most calls in flight at once
MaxRequests == 2

Slots == 1..MaxRequests

ConcRequests ==
    { GmArgs(ProjectText, None, None, None, 5),
      GmArgs(ProjectText, None, Num(100000), None, 1),
      GmArgs(ProjectText, None, Num(300000), None, 5) }

ConcStores ==
    { << Point(1), Point(2) >>, << Point(2), Point(6), Point(1) >> }

InitConcurrent ==
    /\ now = [day |-> Ordinal(2025, 5, 31), sec |-> 0]
    /\ ticks = 0
    /\ store \in ConcStores
    /\ inflight = [s \in Slots |-> NoReq]
    /\ resp = [s \in Slots |-> NoResp]

\* the slots other than s whose call is suspended at its await
Suspended(s) == { t \in Slots \ {s} : inflight[t].h = "gm" }

\* a call starts in slot s and runs to its await of embed_text
ConcStart(s, args) ==
    /\ inflight[s] = NoReq
    /\ LET q == _build_query_text(args.project_description, args.company_info,
                                  args.budget, args.location)
       IN  IF q.raised
           THEN /\ resp' = [resp EXCEPT ![s] =
                               [h |-> "gm", status |-> "error", stage |-> "query",
                                budget |-> args.budget, limit |-> args.limit,
                                req |-> args, log |-> <<>>, during |-> Suspended(s)]]
                /\ inflight' = inflight
           ELSE /\ inflight' = [inflight EXCEPT ![s] =
                                   [h |-> "gm", budget |-> args.budget,
                                    limit |-> args.limit, req |-> args,
                                    query_text |-> q.text, log |-> <<"embed">>]]
                /\ resp' = [resp EXCEPT ![s] = NoResp]
    /\ UNCHANGED <<now, ticks, store>>

\* ConcFinish with the arguments kept in one place for all calls: the call
\* resumes with the budget and limit of a call that is suspended beside it
ConcFinish_sharedargs(s) ==
    /\ inflight[s].h = "gm"
    /\ \E t \in Suspended(s) \cup {s} :
          resp' = [resp EXCEPT ![s] =
                      [GmResponse(inflight[t].budget, inflight[t].limit)
                           EXCEPT !.log = inflight[s].log \o @]
                      @@ [req |-> inflight[s].req, during |-> Suspended(s)]]
    /\ inflight' = [inflight EXCEPT ![s] = NoReq]
    /\ UNCHANGED <<now, ticks, store>>

\* the embedding of the call in slot s arrives: the call resumes and runs to
\* its return with its own budget and limit
ConcFinish(s) ==
    /\ inflight[s].h = "gm"
    /\ resp' = [resp EXCEPT ![s] =
                   [GmResponse(inflight[s].budget, inflight[s].limit)
                        EXCEPT !.log = inflight[s].log \o @]
                   @@ [req |-> inflight[s].req, during |-> Suspended(s)]]
    /\ inflight' = [inflight EXCEPT ![s] = NoReq]
    /\ UNCHANGED <<now, ticks, store>>

\* embed_text raises in the call of slot s
ConcEmbeddingFails(s) ==
    /\ inflight[s].h = "gm"
    /\ resp' = [resp EXCEPT ![s] =
                   [h |-> "gm", status |-> "error", stage |-> "embed",
                    budget |-> inflight[s].budget, limit |-> inflight[s].limit,
                    req |-> inflight[s].req, log |-> inflight[s].log,
                    during |-> Suspended(s)]]
    /\ inflight' = [inflight EXCEPT ![s] = NoReq]
    /\ UNCHANGED <<now, ticks, store>>

NextConcurrent ==
    \/ \E s \in Slots, args \in ConcRequests : ConcStart(s, args)
    \/ \E s \in Slots : ConcFinish(s)
    \/ \E s \in Slots : ConcEmbeddingFails(s)

SpecConcurrent == InitConcurrent /\ [][NextConcurrent]_vars

\* what the call args returns when it is the only call, on the store as it is
Alone(args) ==
    [GmResponse(args.budget, args.limit) EXCEPT !.log = <<"embed">> \o @]

MaxRuns == 3

\* the programs every run imports: title and url
Programs ==
    { [title |-> <<"Z", "I", "M">>, url |-> UrlZim], [title |-> <<"K", "M", "U", "-", "i", "n", "n", "o", "v", "a", "t", "i", "v">>, url |-> UrlKmu],
      [title |-> <<"g", "o", "-", "d", "i", "g", "i", "t", "a", "l">>, url |-> UrlGo] }

\* the orders in which a data file can list the programs
Orders ==
    { o \in [1..Cardinality(Programs) -> Programs] :
        \A i, j \in DOMAIN o : i # j => o[i] # o[j] }

\* QdrantService.upsert_grant: the point id is uuid5 of grant_id (one id per
\* grant_id); a point of that id is replaced, any other id is added
upsert_grant(st, grant_id, payload, run) ==
    LET point == [id |-> grant_id, payload |-> payload, run |-> run]
    IN  IF \E i \in 1..Len(st) : st[i].id = grant_id
        THEN [i \in 1..Len(st) |-> IF st[i].id = grant_id THEN point ELSE st[i]]
        ELSE Append(st, point)

\* the loop of import_foerderdatenbank.py from program i on:
\* grant_id = f"foerderdatenbank_{i}"
RECURSIVE ImportLoop(_, _, _, _)
ImportLoop(st, programs, i, run) ==
    IF i > Len(programs) THEN st
    ELSE ImportLoop(upsert_grant(st, <<"f", "o", "e", "r", "d", "e", "r", "d", "a", "t", "e", "n", "b", "a", "n", "k", "_">> \o StrOfInt(i),
                                 ImportRecord(programs[i].title, programs[i].url,
                                              <<"b", "i", "s", " ", "5", "0", "0", ".", "0", "0", "0", " ", "E", "U", "R">>),
                                 run),
                    programs, i + 1, run)

\* the loop of seed_simple.py from grant i on:
\* grant_id = grant.get('url') or grant.get('external_id') or f"grant-{i}"
RECURSIVE SeedLoop(_, _, _, _)
SeedLoop(st, grants, i, run) ==
    IF i > Len(grants) THEN st
    ELSE SeedLoop(upsert_grant(st,
                               FirstTruthy(<< Str(grants[i].url),
                                              Str(<<"g", "r", "a", "n", "t", "-">> \o StrOfInt(i)) >>).v,
                               SeedSimpleRecord(grants[i].title, grants[i].url, 500000),
                               run),
                  grants, i + 1, run)

InitImport ==
    /\ now = [day |-> Ordinal(2025, 5, 1), sec |-> 0]
    /\ ticks = 0
    /\ store = <<>>
    /\ inflight = NoReq
    /\ resp = NoResp

\* one run of import_foerderdatenbank.py over a data file
ImportRun(programs) ==
    /\ ticks < MaxRuns
    /\ ticks' = ticks + 1
    /\ store' = ImportLoop(store, programs, 1, ticks + 1)
    /\ UNCHANGED <<now, inflight, resp>>

\* one run of seed_simple.py over a data file
SeedRun(grants) ==
    /\ ticks < MaxRuns
    /\ ticks' = ticks + 1
    /\ store' = SeedLoop(store, grants, 1, ticks + 1)
    /\ UNCHANGED <<now, inflight, resp>>

NextImport ==
    \/ \E programs \in Orders : ImportRun(programs)
    \/ \E grants \in Orders : SeedRun(grants)

SpecImport == InitImport /\ [][NextImport]_vars

\* the points that hold program
PointsOf(st, program) ==
    { i \in 1..Len(st) : st[i].payload["url"] = Str(program.url) }

\* the store holds one point for each program
OnePointPerProgram(st) ==
    \A program \in Programs : Cardinality(PointsOf(st, program)) = 1

\* every program that had a point before the run has a point of that id after
IdsKept ==
    \A program \in Programs :
        \A i \in PointsOf(store, program) :
            \E j \in PointsOf(store', program) : store'[j].id = store[i].id

\* C26: after every import run over the same set of programs the store
\* holds exactly one point for each program, each program is still under the
\* point id it had before the run, and every point carries the payload the
\* latest run wrote.
C26_ReimportUpdates ==
    [][ /\ OnePointPerProgram(store')
        /\ IdsKept
        /\ \A i \in 1..Len(store') : store'[i].run = ticks' ]_vars


(***************************************************************************)
(* Change detection (services/change_detection.py) as the task run_scraper *)
(* uses it (tasks/scraper_tasks.py).  inflight is the running task with    *)
(* the _hash_cache of its ChangeDetectionService, store the content of the *)
(* latest scrape of every URL, resp the outcome of the latest              *)
(* detect_change: the Change it returned and whether run_scraper put it    *)
(* among its changes.                                                      *)
(***************************************************************************)
\* new_content[:5000] of the cache entry
CachedContentLimit == 5000

Whitespace == { " ", "\t", "\n" }

\* content.split(): the words between runs of whitespace
RECURSIVE Split(_, _, _)
Split(s, i, word) ==
    IF i > Len(s) THEN (IF word = <<>> THEN <<>> ELSE << word >>)
    ELSE IF s[i] \in Whitespace
    THEN (IF word = <<>> THEN <<>> ELSE << word >>) \o Split(s, i + 1, <<>>)
    ELSE Split(s, i + 1, Append(word, s[i]))

\* calculate_hash: the SHA256 of ' '.join(content.lower().split()); a hash
\* is written as the text it was taken of, two texts having one hash only
\* when they are the same text
calculate_hash(content) == Join(Split(Lower(content), 1, <<>>), <<" ">>)

\* the source URL scraped, and what a scrape can find there
SourceUrls == { UrlZim }
Contents ==
    { <<"F", "r", "i", "s", "t", " ", "o", "f", "f", "e", "n">>, <<"F", "R", "I", "S", "T", " ", " ", " ", "o", "f", "f", "e", "n">>, <<"F", "r", "i", "s", "t", " ", "o", "f", "f", "e", "n", " ", "B", "u", "n", "d">>, <<"P", "r", "o", "g", "r", "a", "m", "m", " ", "b", "e", "e", "n", "d", "e", "t">> }

ChangeTypes ==
    { "NEW_PROGRAM", "UPDATED_PROGRAM", "EXPIRED_PROGRAM", "DEADLINE_CHANGED",
      "AMOUNT_CHANGED", "CONDITIONS_CHANGED", "NO_CHANGE" }

\* what the LLM can answer: a category, or nothing usable
LlmAnswers == ChangeTypes \cup { "none" }

ExpirationKeywords ==
    { <<"e", "i", "n", "g", "e", "s", "t", "e", "l", "l", "t">>, <<"b", "e", "e", "n", "d", "e", "t">>, <<"a", "u", "s", "g", "e", "l", "a", "u", "f", "e", "n">>, <<"n", "i", "c", "h", "t", " ", "m", "e", "h", "r", " ", "v", "e", "r", "f", "ü", "g", "b", "a", "r">>, <<"g", "e", "s", "c", "h", "l", "o", "s", "s", "e", "n">> }

\* _rule_based_classification for contents without digits (the deadline,
\* amount and percentage rules each need a number in the content): a new
\* expiration keyword, else less than half of the words in common
_rule_based_classification(old_content, new_content) ==
    LET old_lower == Lower(old_content)
        new_lower == Lower(new_content)
        old_words == { Split(old_lower, 1, <<>>)[i] : i \in 1..Len(Split(old_lower, 1, <<>>)) }
        new_words == { Split(new_lower, 1, <<>>)[i] : i \in 1..Len(Split(new_lower, 1, <<>>)) }
    IN  IF \E keyword \in ExpirationKeywords :
               Contains(keyword, new_lower) /\ ~Contains(keyword, old_lower)
        THEN "EXPIRED_PROGRAM"
        ELSE IF old_words # {} /\ new_words # {}
                /\ 2 * Cardinality(old_words \cap new_words)
                   < Cardinality(old_words \cup new_words)
        THEN "UPDATED_PROGRAM"
        ELSE "none"

\* _classify_change: the rules, then the LLM when there is a client and it
\* gave an answer, then UPDATED_PROGRAM
_classify_change(old_content, new_content, client, llm) ==
    LET rule_result == _rule_based_classification(old_content, new_content)
    IN  IF rule_result # "none" THEN rule_result
        ELSE IF client /\ llm # "none" THEN llm
        ELSE "UPDATED_PROGRAM"

\* detect_change on the cache: the change type returned ("none" for None) and
\* the cache afterwards
detect_change(cache, source_url, new_content, client, llm) ==
    LET new_hash == calculate_hash(new_content)
        entry == [hash |-> new_hash, content |-> Take(new_content, CachedContentLimit)]
    IN  IF source_url \notin DOMAIN cache
        THEN [change |-> "NEW_PROGRAM", cache |-> (source_url :> entry) @@ cache]
        ELSE IF cache[source_url].hash = new_hash
        THEN [change |-> "none", cache |-> cache]
        ELSE [change |-> _classify_change(cache[source_url].content, new_content,
                                          client, llm),
              cache |-> (source_url :> entry) @@ cache]

NeverScraped == <<"never scraped">>

InitScraper ==
    /\ now = [day |-> Ordinal(2025, 5, 1), sec |-> 0]
    /\ ticks = 0
    /\ store = [url \in SourceUrls |-> NeverScraped]
    /\ inflight = NoReq
    /\ resp = NoResp

\* run_scraper starts: a new ChangeDetectionService with an empty cache, with
\* an LLM client when the API key is set
StartScraper(client) ==
    /\ inflight = NoReq
    /\ inflight' = [h |-> "run", client |-> client, cache |-> << >>]
    /\ resp' = NoResp
    /\ UNCHANGED <<now, ticks, store>>

\* the loop body of run_scraper for one program: detect_change on its URL
\* and content; the change is put among the changes unless it is None or of
\* type NO_CHANGE
ScrapeProgram(url, content, llm) ==
    /\ inflight.h = "run"
    /\ LET d == detect_change(inflight.cache, url, content, inflight.client, llm)
       IN  /\ inflight' = [inflight EXCEPT !.cache = d.cache]
           /\ resp' = [h |-> "detect", url |-> url, content |-> content,
                       previous |-> store[url], change |-> d.change,
                       reported |-> d.change \notin { "none", "NO_CHANGE" }]
    /\ store' = [store EXCEPT ![url] = content]
    /\ UNCHANGED <<now, ticks>>

\* run_scraper returns
FinishScraper ==
    /\ inflight.h = "run"
    /\ inflight' = NoReq
    /\ UNCHANGED <<now, ticks, store, resp>>

NextScraper ==
    \/ \E client \in BOOLEAN : StartScraper(client)
    \/ \E url \in SourceUrls, content \in Contents, llm \in LlmAnswers :
          ScrapeProgram(url, content, llm)
    \/ FinishScraper

SpecScraper == InitScraper /\ [][NextScraper]_vars

\* C29: over every sequence of scrapes of a source URL, also across runs of
\* run_scraper, the first scrape reports NEW_PROGRAM, and every later scrape
\* reports a change exactly when its content, lower-cased and with its
\* whitespace collapsed, differs from the content of the scrape before it.
C29_ChangeIffContentDiffers ==
    resp.h = "detect"
    => IF resp.previous = NeverScraped
       THEN resp.reported /\ resp.change = "NEW_PROGRAM"
       ELSE resp.reported <=> calculate_hash(resp.content) # calculate_hash(resp.previous)


(***************************************************************************)
(* One application of one owner (api/v1/applications.py) and the           *)
(* background task generate_application_content                            *)
(* (tasks/application_tasks.py).  store is the applications table (empty,  *)
(* or the row), inflight the tasks queued or running, each at the number   *)
(* of commits it has made, resp the answer to the latest API call, ticks   *)
(* whether the application was created.                                    *)
(***************************************************************************)
\* most generation tasks queued or running at once
MaxTasks == 1

\* class ApplicationStatus
ApplicationStatus ==
    { "draft", "generating", "review", "ready", "submitted", "in_review",
      "approved", "rejected", "withdrawn" }

\* completion_percentage after each of the seven sections
SectionPercentages == << 14, 28, 42, 57, 71, 85, 100 >>

\* a task not yet started
Queued == [commits |-> 0]

InitApplication ==
    /\ now = [day |-> Ordinal(2025, 5, 1), sec |-> 0]
    /\ ticks = 0
    /\ store = <<>>
    /\ inflight = <<>>
    /\ resp = NoResp

\* store without its row
Without(st) == SubSeq(st, 2, Len(st))

\* inflight without task i
Dequeue(tasks, i) == SubSeq(tasks, 1, i - 1) \o SubSeq(tasks, i + 1, Len(tasks))

\* POST /: the row is added as DRAFT and a generation task is queued
create_application ==
    /\ ticks = 0 /\ Len(inflight) < MaxTasks
    /\ ticks' = 1
    /\ store' = << [status |-> "draft", completion_percentage |-> 10,
                    submitted_at |-> FALSE, generated_content |-> FALSE] >>
    /\ inflight' = Append(inflight, Queued)
    /\ resp' = [h |-> "create", code |-> 201]
    /\ UNCHANGED now

\* PATCH /{application_id}: every field of the update that is set is written,
\* status among them (status = "unset": the update names other fields only)
update_application(status) ==
    /\ ticks = 1
    /\ IF store = <<>>
       THEN /\ resp' = [h |-> "update", code |-> 404]
            /\ store' = store
       ELSE /\ store' = IF status = "unset" THEN store
                        ELSE << [store[1] EXCEPT !.status = status] >>
            /\ resp' = [h |-> "update", code |-> 200]
    /\ UNCHANGED <<now, ticks, inflight>>

\* DELETE /{application_id}: 400 unless the status is DRAFT or GENERATING
delete_application ==
    /\ ticks = 1
    /\ IF store = <<>>
       THEN /\ resp' = [h |-> "delete", code |-> 404]
            /\ store' = store
       ELSE IF store[1].status \notin { "draft", "generating" }
       THEN /\ resp' = [h |-> "delete", code |-> 400]
            /\ store' = store
       ELSE /\ store' = Without(store)
            /\ resp' = [h |-> "delete", code |-> 204, row |-> store[1]]
    /\ UNCHANGED <<now, ticks, inflight>>

\* POST /{application_id}/generate: a task is queued and the status set to
\* GENERATING, whatever it was
regenerate_application_content ==
    /\ ticks = 1 /\ Len(inflight) < MaxTasks
    /\ IF store = <<>>
       THEN /\ resp' = [h |-> "generate", code |-> 404]
            /\ UNCHANGED <<store, inflight>>
       ELSE /\ inflight' = Append(inflight, Queued)
            /\ store' = << [store[1] EXCEPT !.status = "generating"] >>
            /\ resp' = [h |-> "generate", code |-> 200]
    /\ UNCHANGED <<now, ticks>>

\* POST /{application_id}/submit: 400 unless the status is READY
submit_application ==
    /\ ticks = 1
    /\ IF store = <<>>
       THEN /\ resp' = [h |-> "submit", code |-> 404]
            /\ store' = store
       ELSE IF store[1].status # "ready"
       THEN /\ resp' = [h |-> "submit", code |-> 400]
            /\ store' = store
       ELSE /\ store' = << [store[1] EXCEPT !.status = "submitted",
                                            !.submitted_at = TRUE] >>
            /\ resp' = [h |-> "submit", code |-> 200, from |-> store[1].status]
    /\ UNCHANGED <<now, ticks, inflight>>

\* generate_application_content, task i, to its next commit: the first
\* commit sets GENERATING, the next seven one section each, the last READY
\* and the content.  A task whose row is gone raises and writes nothing.
TaskCommit(i) ==
    /\ i \in 1..Len(inflight)
    /\ LET commits == inflight[i].commits
       IN  IF store = <<>>
           THEN /\ inflight' = Dequeue(inflight, i)
                /\ store' = store
           ELSE IF commits = 0
           THEN /\ store' = << [store[1] EXCEPT !.status = "generating",
                                                !.completion_percentage = 0] >>
                /\ inflight' = [inflight EXCEPT ![i].commits = 1]
           ELSE IF commits <= Len(SectionPercentages)
           THEN /\ store' = << [store[1] EXCEPT !.completion_percentage =
                                                   SectionPercentages[commits]] >>
                /\ inflight' = [inflight EXCEPT ![i].commits = commits + 1]
           ELSE /\ store' = << [store[1] EXCEPT !.status = "ready",
                                                !.generated_content = TRUE] >>
                /\ inflight' = Dequeue(inflight, i)
    /\ UNCHANGED <<now, ticks, resp>>

\* a section of task i raises: the except branch sets DRAFT
TaskFails(i) ==
    /\ i \in 1..Len(inflight)
    /\ inflight[i].commits \in 1..Len(SectionPercentages)
    /\ store' = IF store = <<>> THEN store
                ELSE << [store[1] EXCEPT !.status = "draft",
                                         !.completion_percentage = 0] >>
    /\ inflight' = Dequeue(inflight, i)
    /\ UNCHANGED <<now, ticks, resp>>

NextApplication ==
    \/ create_application
    \/ \E status \in ApplicationStatus \cup { "unset" } : update_application(status)
    \/ delete_application
    \/ regenerate_application_content
    \/ submit_application
    \/ \E i \in 1..MaxTasks : TaskCommit(i)
    \/ \E i \in 1..MaxTasks : TaskFails(i)

SpecApplication == InitApplication /\ [][NextApplication]_vars

\* C30: an application that was submitted is never deleted: whatever the
\* owner's updates, regenerations, submissions and deletions and the steps
\* of the generation tasks, delete_application removes no application whose
\* submission was accepted; and a submission is accepted from READY only.
C30_SubmittedNeverDeleted ==
    /\ (resp.h = "delete" /\ resp.code = 204) => ~resp.row.submitted_at
    /\ (resp.h = "submit" /\ resp.code = 200) => resp.from = "ready"

====
